---- MODULE Spec2Model ----
(***************************************************************************)
(* Model of the zone selection, the conversion handler and the offset      *)
(* table of src/src/main.ts (class App).                                   *)
(*                                                                         *)
(* Strings are sequences of UTF-16 code units, so that trim, toUpperCase,   *)
(* toLowerCase, includes, startsWith and length are computed code unit by  *)
(* code unit as the JavaScript code computes them.  Numbers are IEEE 754   *)
(* doubles, computed bit for bit: every operation rounds its exact result  *)
(* once.  A Date is its time value, the whole milliseconds since 1970 or   *)
(* NaN.  Day 0 of the model is 2024-03-10, the day of the spring-forward   *)
(* transition of America/New_York (07:00 UTC) and America/Chicago          *)
(* (08:00 UTC); the zone rules are those in force around that day.         *)
(***************************************************************************)
EXTENDS Integers, Sequences, FiniteSets, TLC

\* ------------------------------------------------------------------------
\* Zone identifiers (string literals of main.ts lines 8-26, and two
\* identifiers of the platform registry that no abbreviation maps to)
\* ------------------------------------------------------------------------
Zone == [
    America_Chicago |->
        <<"A","m","e","r","i","c","a","/","C","h","i","c","a","g","o">>,
    America_Denver |->
        <<"A","m","e","r","i","c","a","/","D","e","n","v","e","r">>,
    America_Los_Angeles |->
        <<"A","m","e","r","i","c","a","/","L","o","s","_","A","n","g","e","l","e","s">>,
    America_New_York |->
        <<"A","m","e","r","i","c","a","/","N","e","w","_","Y","o","r","k">>,
    Asia_Hong_Kong |->
        <<"A","s","i","a","/","H","o","n","g","_","K","o","n","g">>,
    Asia_Kolkata |->
        <<"A","s","i","a","/","K","o","l","k","a","t","a">>,
    Asia_Singapore |->
        <<"A","s","i","a","/","S","i","n","g","a","p","o","r","e">>,
    Asia_Tokyo |->
        <<"A","s","i","a","/","T","o","k","y","o">>,
    Australia_Adelaide |->
        <<"A","u","s","t","r","a","l","i","a","/","A","d","e","l","a","i","d","e">>,
    Australia_Perth |->
        <<"A","u","s","t","r","a","l","i","a","/","P","e","r","t","h">>,
    Australia_Sydney |->
        <<"A","u","s","t","r","a","l","i","a","/","S","y","d","n","e","y">>,
    Europe_Paris |->
        <<"E","u","r","o","p","e","/","P","a","r","i","s">>,
    UTC |->
        <<"U","T","C">>,
    Europe_London |->
        <<"E","u","r","o","p","e","/","L","o","n","d","o","n">>,
    Asia_Calcutta |->
        <<"A","s","i","a","/","C","a","l","c","u","t","t","a">>
    ]

\* const TZ_ABBREVIATIONS: Record<string, string>, in source order
TZ_ABBREVIATIONS == <<
    << <<"U","T","C">>, Zone.UTC >>,
    << <<"G","M","T">>, Zone.UTC >>,
    << <<"E","S","T">>, Zone.America_New_York >>,
    << <<"E","D","T">>, Zone.America_New_York >>,
    << <<"C","S","T">>, Zone.America_Chicago >>,
    << <<"C","D","T">>, Zone.America_Chicago >>,
    << <<"M","S","T">>, Zone.America_Denver >>,
    << <<"M","D","T">>, Zone.America_Denver >>,
    << <<"P","S","T">>, Zone.America_Los_Angeles >>,
    << <<"P","D","T">>, Zone.America_Los_Angeles >>,
    << <<"C","E","T">>, Zone.Europe_Paris >>,
    << <<"C","E","S","T">>, Zone.Europe_Paris >>,
    << <<"I","S","T">>, Zone.Asia_Kolkata >>,
    << <<"J","S","T">>, Zone.Asia_Tokyo >>,
    << <<"A","E","S","T">>, Zone.Australia_Sydney >>,
    << <<"A","C","S","T">>, Zone.Australia_Adelaide >>,
    << <<"A","W","S","T">>, Zone.Australia_Perth >>,
    << <<"S","G","T">>, Zone.Asia_Singapore >>,
    << <<"H","K","T">>, Zone.Asia_Hong_Kong >>
>>

\* const MAX_TIMEZONES = 4
MAX_TIMEZONES == 4

\* ------------------------------------------------------------------------
\* String primitives of JavaScript used by the code.  A string is the
\* sequence of its UTF-16 code units; a printable ASCII code unit is
\* written as the character, tab, line feed, form feed and carriage return
\* as "\t", "\n", "\f" and "\r", and every other code unit (the grave
\* accent among them) as "U+" and its four hexadecimal digits.
\* ------------------------------------------------------------------------
LowerLetters == <<"a","b","c","d","e","f","g","h","i","j","k","l","m",
                  "n","o","p","q","r","s","t","u","v","w","x","y","z">>
UpperLetters == <<"A","B","C","D","E","F","G","H","I","J","K","L","M",
                  "N","O","P","Q","R","S","T","U","V","W","X","Y","Z">>

HexDigits == <<"0","1","2","3","4","5","6","7","8","9",
               "A","B","C","D","E","F">>

\* The name of the code unit with the number n
CodeUnit(n) ==
    LET
        \* The names of the code units 32..126
        Printable == <<
            " ", "!", "\"", "#", "$", "%", "&", "'", "(", ")", "*", "+", ",", "-",
            ".", "/", "0", "1", "2", "3", "4", "5", "6", "7", "8", "9", ":", ";",
            "<", "=", ">", "?", "@", "A", "B", "C", "D", "E", "F", "G", "H", "I",
            "J", "K", "L", "M", "N", "O", "P", "Q", "R", "S", "T", "U", "V", "W",
            "X", "Y", "Z", "[", "\\", "]", "^", "_", "U+0060", "a", "b", "c", "d",
            "e", "f", "g", "h", "i", "j", "k", "l", "m", "n", "o", "p", "q", "r",
            "s", "t", "u", "v", "w", "x", "y", "z", "{", "|", "}", "~" >>
    IN
        IF n = 9 THEN "\t"
        ELSE IF n = 10 THEN "\n"
        ELSE IF n = 12 THEN "\f"
        ELSE IF n = 13 THEN "\r"
        ELSE IF n >= 32 /\ n <= 126 THEN Printable[n - 31]
        ELSE "U+" \o HexDigits[(n \div 4096) + 1]
                  \o HexDigits[((n \div 256) % 16) + 1]
                  \o HexDigits[((n \div 16) % 16) + 1]
                  \o HexDigits[(n % 16) + 1]

\* The two code units of a code point beyond the basic plane
SurrogatePair(n) ==
    << CodeUnit(\hD800 + ((n - \h10000) \div 1024)),
       CodeUnit(\hDC00 + ((n - \h10000) % 1024)) >>

\* The code units that are the first and the second half of such a pair
Surrogates ==
    [high |-> {CodeUnit(n) : n \in \hD800..\hDBFF},
     low |-> {CodeUnit(n) : n \in \hDC00..\hDFFF}]

\* The code points of a string: a high surrogate followed by a low one is
\* one code point of two code units, any other code unit is one by itself
RECURSIVE CodePoints(_)
CodePoints(s) ==
    IF Len(s) = 0 THEN << >>
    ELSE IF Len(s) >= 2 /\ s[1] \in Surrogates.high /\ s[2] \in Surrogates.low
    THEN << SubSeq(s, 1, 2) >> \o CodePoints(SubSeq(s, 3, Len(s)))
    ELSE << << s[1] >> >> \o CodePoints(Tail(s))

\* The strings of a list, joined
RECURSIVE Flatten(_)
Flatten(list) ==
    IF Len(list) = 0 THEN << >> ELSE Head(list) \o Flatten(Tail(list))

\* A run <<first, last, stride, target>> of a case table maps the code
\* points first, first + stride, ..., last to target, target + stride, ...
RunMembers(r) == {r[1] + k * r[3] : k \in 0..((r[2] - r[1]) \div r[3])}

UpperSpecial ==
    LET
        \* Upper-case mappings of the code units outside ASCII to one code unit
        \* outside ASCII
        UpperRuns == {
            <<\h00B5, \h00B5, 1, \h039C>>, <<\h00E0, \h00F6, 1, \h00C0>>,
            <<\h00F8, \h00FE, 1, \h00D8>>, <<\h00FF, \h00FF, 1, \h0178>>,
            <<\h0101, \h012F, 2, \h0100>>, <<\h0133, \h0137, 2, \h0132>>,
            <<\h013A, \h0148, 2, \h0139>>, <<\h014B, \h0177, 2, \h014A>>,
            <<\h017A, \h017E, 2, \h0179>>, <<\h0180, \h0180, 1, \h0243>>,
            <<\h0183, \h0185, 2, \h0182>>, <<\h0188, \h0188, 1, \h0187>>,
            <<\h018C, \h018C, 1, \h018B>>, <<\h0192, \h0192, 1, \h0191>>,
            <<\h0195, \h0195, 1, \h01F6>>, <<\h0199, \h0199, 1, \h0198>>,
            <<\h019A, \h019A, 1, \h023D>>, <<\h019B, \h019B, 1, \hA7DC>>,
            <<\h019E, \h019E, 1, \h0220>>, <<\h01A1, \h01A5, 2, \h01A0>>,
            <<\h01A8, \h01A8, 1, \h01A7>>, <<\h01AD, \h01AD, 1, \h01AC>>,
            <<\h01B0, \h01B0, 1, \h01AF>>, <<\h01B4, \h01B6, 2, \h01B3>>,
            <<\h01B9, \h01B9, 1, \h01B8>>, <<\h01BD, \h01BD, 1, \h01BC>>,
            <<\h01BF, \h01BF, 1, \h01F7>>, <<\h01C5, \h01C5, 1, \h01C4>>,
            <<\h01C6, \h01C6, 1, \h01C4>>, <<\h01C8, \h01C8, 1, \h01C7>>,
            <<\h01C9, \h01C9, 1, \h01C7>>, <<\h01CB, \h01CB, 1, \h01CA>>,
            <<\h01CC, \h01CC, 1, \h01CA>>, <<\h01CE, \h01DC, 2, \h01CD>>,
            <<\h01DD, \h01DD, 1, \h018E>>, <<\h01DF, \h01EF, 2, \h01DE>>,
            <<\h01F2, \h01F2, 1, \h01F1>>, <<\h01F3, \h01F3, 1, \h01F1>>,
            <<\h01F5, \h01F5, 1, \h01F4>>, <<\h01F9, \h021F, 2, \h01F8>>,
            <<\h0223, \h0233, 2, \h0222>>, <<\h023C, \h023C, 1, \h023B>>,
            <<\h023F, \h0240, 1, \h2C7E>>, <<\h0242, \h0242, 1, \h0241>>,
            <<\h0247, \h024F, 2, \h0246>>, <<\h0250, \h0250, 1, \h2C6F>>,
            <<\h0251, \h0251, 1, \h2C6D>>, <<\h0252, \h0252, 1, \h2C70>>,
            <<\h0253, \h0253, 1, \h0181>>, <<\h0254, \h0254, 1, \h0186>>,
            <<\h0256, \h0257, 1, \h0189>>, <<\h0259, \h0259, 1, \h018F>>,
            <<\h025B, \h025B, 1, \h0190>>, <<\h025C, \h025C, 1, \hA7AB>>,
            <<\h0260, \h0260, 1, \h0193>>, <<\h0261, \h0261, 1, \hA7AC>>,
            <<\h0263, \h0263, 1, \h0194>>, <<\h0264, \h0264, 1, \hA7CB>>,
            <<\h0265, \h0265, 1, \hA78D>>, <<\h0266, \h0266, 1, \hA7AA>>,
            <<\h0268, \h0268, 1, \h0197>>, <<\h0269, \h0269, 1, \h0196>>,
            <<\h026A, \h026A, 1, \hA7AE>>, <<\h026B, \h026B, 1, \h2C62>>,
            <<\h026C, \h026C, 1, \hA7AD>>, <<\h026F, \h026F, 1, \h019C>>,
            <<\h0271, \h0271, 1, \h2C6E>>, <<\h0272, \h0272, 1, \h019D>>,
            <<\h0275, \h0275, 1, \h019F>>, <<\h027D, \h027D, 1, \h2C64>>,
            <<\h0280, \h0280, 1, \h01A6>>, <<\h0282, \h0282, 1, \hA7C5>>,
            <<\h0283, \h0283, 1, \h01A9>>, <<\h0287, \h0287, 1, \hA7B1>>,
            <<\h0288, \h0288, 1, \h01AE>>, <<\h0289, \h0289, 1, \h0244>>,
            <<\h028A, \h028B, 1, \h01B1>>, <<\h028C, \h028C, 1, \h0245>>,
            <<\h0292, \h0292, 1, \h01B7>>, <<\h029D, \h029D, 1, \hA7B2>>,
            <<\h029E, \h029E, 1, \hA7B0>>, <<\h0345, \h0345, 1, \h0399>>,
            <<\h0371, \h0373, 2, \h0370>>, <<\h0377, \h0377, 1, \h0376>>,
            <<\h037B, \h037D, 1, \h03FD>>, <<\h03AC, \h03AC, 1, \h0386>>,
            <<\h03AD, \h03AF, 1, \h0388>>, <<\h03B1, \h03C1, 1, \h0391>>,
            <<\h03C2, \h03C2, 1, \h03A3>>, <<\h03C3, \h03CB, 1, \h03A3>>,
            <<\h03CC, \h03CC, 1, \h038C>>, <<\h03CD, \h03CE, 1, \h038E>>,
            <<\h03D0, \h03D0, 1, \h0392>>, <<\h03D1, \h03D1, 1, \h0398>>,
            <<\h03D5, \h03D5, 1, \h03A6>>, <<\h03D6, \h03D6, 1, \h03A0>>,
            <<\h03D7, \h03D7, 1, \h03CF>>, <<\h03D9, \h03EF, 2, \h03D8>>,
            <<\h03F0, \h03F0, 1, \h039A>>, <<\h03F1, \h03F1, 1, \h03A1>>,
            <<\h03F2, \h03F2, 1, \h03F9>>, <<\h03F3, \h03F3, 1, \h037F>>,
            <<\h03F5, \h03F5, 1, \h0395>>, <<\h03F8, \h03F8, 1, \h03F7>>,
            <<\h03FB, \h03FB, 1, \h03FA>>, <<\h0430, \h044F, 1, \h0410>>,
            <<\h0450, \h045F, 1, \h0400>>, <<\h0461, \h0481, 2, \h0460>>,
            <<\h048B, \h04BF, 2, \h048A>>, <<\h04C2, \h04CE, 2, \h04C1>>,
            <<\h04CF, \h04CF, 1, \h04C0>>, <<\h04D1, \h052F, 2, \h04D0>>,
            <<\h0561, \h0586, 1, \h0531>>, <<\h10D0, \h10FA, 1, \h1C90>>,
            <<\h10FD, \h10FF, 1, \h1CBD>>, <<\h13F8, \h13FD, 1, \h13F0>>,
            <<\h1C80, \h1C80, 1, \h0412>>, <<\h1C81, \h1C81, 1, \h0414>>,
            <<\h1C82, \h1C82, 1, \h041E>>, <<\h1C83, \h1C84, 1, \h0421>>,
            <<\h1C85, \h1C85, 1, \h0422>>, <<\h1C86, \h1C86, 1, \h042A>>,
            <<\h1C87, \h1C87, 1, \h0462>>, <<\h1C88, \h1C88, 1, \hA64A>>,
            <<\h1C8A, \h1C8A, 1, \h1C89>>, <<\h1D79, \h1D79, 1, \hA77D>>,
            <<\h1D7D, \h1D7D, 1, \h2C63>>, <<\h1D8E, \h1D8E, 1, \hA7C6>>,
            <<\h1E01, \h1E95, 2, \h1E00>>, <<\h1E9B, \h1E9B, 1, \h1E60>>,
            <<\h1EA1, \h1EFF, 2, \h1EA0>>, <<\h1F00, \h1F07, 1, \h1F08>>,
            <<\h1F10, \h1F15, 1, \h1F18>>, <<\h1F20, \h1F27, 1, \h1F28>>,
            <<\h1F30, \h1F37, 1, \h1F38>>, <<\h1F40, \h1F45, 1, \h1F48>>,
            <<\h1F51, \h1F57, 2, \h1F59>>, <<\h1F60, \h1F67, 1, \h1F68>>,
            <<\h1F70, \h1F71, 1, \h1FBA>>, <<\h1F72, \h1F75, 1, \h1FC8>>,
            <<\h1F76, \h1F77, 1, \h1FDA>>, <<\h1F78, \h1F79, 1, \h1FF8>>,
            <<\h1F7A, \h1F7B, 1, \h1FEA>>, <<\h1F7C, \h1F7D, 1, \h1FFA>>,
            <<\h1FB0, \h1FB1, 1, \h1FB8>>, <<\h1FBE, \h1FBE, 1, \h0399>>,
            <<\h1FD0, \h1FD1, 1, \h1FD8>>, <<\h1FE0, \h1FE1, 1, \h1FE8>>,
            <<\h1FE5, \h1FE5, 1, \h1FEC>>, <<\h214E, \h214E, 1, \h2132>>,
            <<\h2170, \h217F, 1, \h2160>>, <<\h2184, \h2184, 1, \h2183>>,
            <<\h24D0, \h24E9, 1, \h24B6>>, <<\h2C30, \h2C5F, 1, \h2C00>>,
            <<\h2C61, \h2C61, 1, \h2C60>>, <<\h2C65, \h2C65, 1, \h023A>>,
            <<\h2C66, \h2C66, 1, \h023E>>, <<\h2C68, \h2C6C, 2, \h2C67>>,
            <<\h2C73, \h2C73, 1, \h2C72>>, <<\h2C76, \h2C76, 1, \h2C75>>,
            <<\h2C81, \h2CE3, 2, \h2C80>>, <<\h2CEC, \h2CEE, 2, \h2CEB>>,
            <<\h2CF3, \h2CF3, 1, \h2CF2>>, <<\h2D00, \h2D25, 1, \h10A0>>,
            <<\h2D27, \h2D27, 1, \h10C7>>, <<\h2D2D, \h2D2D, 1, \h10CD>>,
            <<\hA641, \hA66D, 2, \hA640>>, <<\hA681, \hA69B, 2, \hA680>>,
            <<\hA723, \hA72F, 2, \hA722>>, <<\hA733, \hA76F, 2, \hA732>>,
            <<\hA77A, \hA77C, 2, \hA779>>, <<\hA77F, \hA787, 2, \hA77E>>,
            <<\hA78C, \hA78C, 1, \hA78B>>, <<\hA791, \hA793, 2, \hA790>>,
            <<\hA794, \hA794, 1, \hA7C4>>, <<\hA797, \hA7A9, 2, \hA796>>,
            <<\hA7B5, \hA7C3, 2, \hA7B4>>, <<\hA7C8, \hA7CA, 2, \hA7C7>>,
            <<\hA7CD, \hA7DB, 2, \hA7CC>>, <<\hA7F6, \hA7F6, 1, \hA7F5>>,
            <<\hAB53, \hAB53, 1, \hA7B3>>, <<\hAB70, \hABBF, 1, \h13A0>>,
            <<\hFF41, \hFF5A, 1, \hFF21>> }
        \* Upper-case mappings to an ASCII letter or to more than one code unit
        UpperLong == {
            <<"U+00DF", <<"S", "S">>>>, <<"U+0131", <<"I">>>>,
            <<"U+0149", <<"U+02BC", "N">>>>, <<"U+017F", <<"S">>>>,
            <<"U+01F0", <<"J", "U+030C">>>>,
            <<"U+0390", <<"U+0399", "U+0308", "U+0301">>>>,
            <<"U+03B0", <<"U+03A5", "U+0308", "U+0301">>>>,
            <<"U+0587", <<"U+0535", "U+0552">>>>, <<"U+1E96", <<"H", "U+0331">>>>,
            <<"U+1E97", <<"T", "U+0308">>>>, <<"U+1E98", <<"W", "U+030A">>>>,
            <<"U+1E99", <<"Y", "U+030A">>>>, <<"U+1E9A", <<"A", "U+02BE">>>>,
            <<"U+1F50", <<"U+03A5", "U+0313">>>>,
            <<"U+1F52", <<"U+03A5", "U+0313", "U+0300">>>>,
            <<"U+1F54", <<"U+03A5", "U+0313", "U+0301">>>>,
            <<"U+1F56", <<"U+03A5", "U+0313", "U+0342">>>>,
            <<"U+1F80", <<"U+1F08", "U+0399">>>>,
            <<"U+1F81", <<"U+1F09", "U+0399">>>>,
            <<"U+1F82", <<"U+1F0A", "U+0399">>>>,
            <<"U+1F83", <<"U+1F0B", "U+0399">>>>,
            <<"U+1F84", <<"U+1F0C", "U+0399">>>>,
            <<"U+1F85", <<"U+1F0D", "U+0399">>>>,
            <<"U+1F86", <<"U+1F0E", "U+0399">>>>,
            <<"U+1F87", <<"U+1F0F", "U+0399">>>>,
            <<"U+1F88", <<"U+1F08", "U+0399">>>>,
            <<"U+1F89", <<"U+1F09", "U+0399">>>>,
            <<"U+1F8A", <<"U+1F0A", "U+0399">>>>,
            <<"U+1F8B", <<"U+1F0B", "U+0399">>>>,
            <<"U+1F8C", <<"U+1F0C", "U+0399">>>>,
            <<"U+1F8D", <<"U+1F0D", "U+0399">>>>,
            <<"U+1F8E", <<"U+1F0E", "U+0399">>>>,
            <<"U+1F8F", <<"U+1F0F", "U+0399">>>>,
            <<"U+1F90", <<"U+1F28", "U+0399">>>>,
            <<"U+1F91", <<"U+1F29", "U+0399">>>>,
            <<"U+1F92", <<"U+1F2A", "U+0399">>>>,
            <<"U+1F93", <<"U+1F2B", "U+0399">>>>,
            <<"U+1F94", <<"U+1F2C", "U+0399">>>>,
            <<"U+1F95", <<"U+1F2D", "U+0399">>>>,
            <<"U+1F96", <<"U+1F2E", "U+0399">>>>,
            <<"U+1F97", <<"U+1F2F", "U+0399">>>>,
            <<"U+1F98", <<"U+1F28", "U+0399">>>>,
            <<"U+1F99", <<"U+1F29", "U+0399">>>>,
            <<"U+1F9A", <<"U+1F2A", "U+0399">>>>,
            <<"U+1F9B", <<"U+1F2B", "U+0399">>>>,
            <<"U+1F9C", <<"U+1F2C", "U+0399">>>>,
            <<"U+1F9D", <<"U+1F2D", "U+0399">>>>,
            <<"U+1F9E", <<"U+1F2E", "U+0399">>>>,
            <<"U+1F9F", <<"U+1F2F", "U+0399">>>>,
            <<"U+1FA0", <<"U+1F68", "U+0399">>>>,
            <<"U+1FA1", <<"U+1F69", "U+0399">>>>,
            <<"U+1FA2", <<"U+1F6A", "U+0399">>>>,
            <<"U+1FA3", <<"U+1F6B", "U+0399">>>>,
            <<"U+1FA4", <<"U+1F6C", "U+0399">>>>,
            <<"U+1FA5", <<"U+1F6D", "U+0399">>>>,
            <<"U+1FA6", <<"U+1F6E", "U+0399">>>>,
            <<"U+1FA7", <<"U+1F6F", "U+0399">>>>,
            <<"U+1FA8", <<"U+1F68", "U+0399">>>>,
            <<"U+1FA9", <<"U+1F69", "U+0399">>>>,
            <<"U+1FAA", <<"U+1F6A", "U+0399">>>>,
            <<"U+1FAB", <<"U+1F6B", "U+0399">>>>,
            <<"U+1FAC", <<"U+1F6C", "U+0399">>>>,
            <<"U+1FAD", <<"U+1F6D", "U+0399">>>>,
            <<"U+1FAE", <<"U+1F6E", "U+0399">>>>,
            <<"U+1FAF", <<"U+1F6F", "U+0399">>>>,
            <<"U+1FB2", <<"U+1FBA", "U+0399">>>>,
            <<"U+1FB3", <<"U+0391", "U+0399">>>>,
            <<"U+1FB4", <<"U+0386", "U+0399">>>>,
            <<"U+1FB6", <<"U+0391", "U+0342">>>>,
            <<"U+1FB7", <<"U+0391", "U+0342", "U+0399">>>>,
            <<"U+1FBC", <<"U+0391", "U+0399">>>>,
            <<"U+1FC2", <<"U+1FCA", "U+0399">>>>,
            <<"U+1FC3", <<"U+0397", "U+0399">>>>,
            <<"U+1FC4", <<"U+0389", "U+0399">>>>,
            <<"U+1FC6", <<"U+0397", "U+0342">>>>,
            <<"U+1FC7", <<"U+0397", "U+0342", "U+0399">>>>,
            <<"U+1FCC", <<"U+0397", "U+0399">>>>,
            <<"U+1FD2", <<"U+0399", "U+0308", "U+0300">>>>,
            <<"U+1FD3", <<"U+0399", "U+0308", "U+0301">>>>,
            <<"U+1FD6", <<"U+0399", "U+0342">>>>,
            <<"U+1FD7", <<"U+0399", "U+0308", "U+0342">>>>,
            <<"U+1FE2", <<"U+03A5", "U+0308", "U+0300">>>>,
            <<"U+1FE3", <<"U+03A5", "U+0308", "U+0301">>>>,
            <<"U+1FE4", <<"U+03A1", "U+0313">>>>,
            <<"U+1FE6", <<"U+03A5", "U+0342">>>>,
            <<"U+1FE7", <<"U+03A5", "U+0308", "U+0342">>>>,
            <<"U+1FF2", <<"U+1FFA", "U+0399">>>>,
            <<"U+1FF3", <<"U+03A9", "U+0399">>>>,
            <<"U+1FF4", <<"U+038F", "U+0399">>>>,
            <<"U+1FF6", <<"U+03A9", "U+0342">>>>,
            <<"U+1FF7", <<"U+03A9", "U+0342", "U+0399">>>>,
            <<"U+1FFC", <<"U+03A9", "U+0399">>>>, <<"U+FB00", <<"F", "F">>>>,
            <<"U+FB01", <<"F", "I">>>>, <<"U+FB02", <<"F", "L">>>>,
            <<"U+FB03", <<"F", "F", "I">>>>, <<"U+FB04", <<"F", "F", "L">>>>,
            <<"U+FB05", <<"S", "T">>>>, <<"U+FB06", <<"S", "T">>>>,
            <<"U+FB13", <<"U+0544", "U+0546">>>>,
            <<"U+FB14", <<"U+0544", "U+0535">>>>,
            <<"U+FB15", <<"U+0544", "U+053B">>>>,
            <<"U+FB16", <<"U+054E", "U+0546">>>>,
            <<"U+FB17", <<"U+0544", "U+053D">>>> }
        UpperPairs ==
            UpperLong
            \cup UNION {{<<CodeUnit(n), << CodeUnit(n + r[4] - r[1]) >>>> :
                            n \in RunMembers(r)} : r \in UpperRuns}
    IN
        [c \in {q[1] : q \in UpperPairs} |->
            (CHOOSE q \in UpperPairs : q[1] = c)[2]]

LowerSpecial ==
    LET
        \* The same three tables for the lower-case mapping
        LowerRuns == {
            <<\h00C0, \h00D6, 1, \h00E0>>, <<\h00D8, \h00DE, 1, \h00F8>>,
            <<\h0100, \h012E, 2, \h0101>>, <<\h0132, \h0136, 2, \h0133>>,
            <<\h0139, \h0147, 2, \h013A>>, <<\h014A, \h0176, 2, \h014B>>,
            <<\h0178, \h0178, 1, \h00FF>>, <<\h0179, \h017D, 2, \h017A>>,
            <<\h0181, \h0181, 1, \h0253>>, <<\h0182, \h0184, 2, \h0183>>,
            <<\h0186, \h0186, 1, \h0254>>, <<\h0187, \h0187, 1, \h0188>>,
            <<\h0189, \h018A, 1, \h0256>>, <<\h018B, \h018B, 1, \h018C>>,
            <<\h018E, \h018E, 1, \h01DD>>, <<\h018F, \h018F, 1, \h0259>>,
            <<\h0190, \h0190, 1, \h025B>>, <<\h0191, \h0191, 1, \h0192>>,
            <<\h0193, \h0193, 1, \h0260>>, <<\h0194, \h0194, 1, \h0263>>,
            <<\h0196, \h0196, 1, \h0269>>, <<\h0197, \h0197, 1, \h0268>>,
            <<\h0198, \h0198, 1, \h0199>>, <<\h019C, \h019C, 1, \h026F>>,
            <<\h019D, \h019D, 1, \h0272>>, <<\h019F, \h019F, 1, \h0275>>,
            <<\h01A0, \h01A4, 2, \h01A1>>, <<\h01A6, \h01A6, 1, \h0280>>,
            <<\h01A7, \h01A7, 1, \h01A8>>, <<\h01A9, \h01A9, 1, \h0283>>,
            <<\h01AC, \h01AC, 1, \h01AD>>, <<\h01AE, \h01AE, 1, \h0288>>,
            <<\h01AF, \h01AF, 1, \h01B0>>, <<\h01B1, \h01B2, 1, \h028A>>,
            <<\h01B3, \h01B5, 2, \h01B4>>, <<\h01B7, \h01B7, 1, \h0292>>,
            <<\h01B8, \h01B8, 1, \h01B9>>, <<\h01BC, \h01BC, 1, \h01BD>>,
            <<\h01C4, \h01C4, 1, \h01C6>>, <<\h01C5, \h01C5, 1, \h01C6>>,
            <<\h01C7, \h01C7, 1, \h01C9>>, <<\h01C8, \h01C8, 1, \h01C9>>,
            <<\h01CA, \h01CA, 1, \h01CC>>, <<\h01CB, \h01DB, 2, \h01CC>>,
            <<\h01DE, \h01EE, 2, \h01DF>>, <<\h01F1, \h01F1, 1, \h01F3>>,
            <<\h01F2, \h01F4, 2, \h01F3>>, <<\h01F6, \h01F6, 1, \h0195>>,
            <<\h01F7, \h01F7, 1, \h01BF>>, <<\h01F8, \h021E, 2, \h01F9>>,
            <<\h0220, \h0220, 1, \h019E>>, <<\h0222, \h0232, 2, \h0223>>,
            <<\h023A, \h023A, 1, \h2C65>>, <<\h023B, \h023B, 1, \h023C>>,
            <<\h023D, \h023D, 1, \h019A>>, <<\h023E, \h023E, 1, \h2C66>>,
            <<\h0241, \h0241, 1, \h0242>>, <<\h0243, \h0243, 1, \h0180>>,
            <<\h0244, \h0244, 1, \h0289>>, <<\h0245, \h0245, 1, \h028C>>,
            <<\h0246, \h024E, 2, \h0247>>, <<\h0370, \h0372, 2, \h0371>>,
            <<\h0376, \h0376, 1, \h0377>>, <<\h037F, \h037F, 1, \h03F3>>,
            <<\h0386, \h0386, 1, \h03AC>>, <<\h0388, \h038A, 1, \h03AD>>,
            <<\h038C, \h038C, 1, \h03CC>>, <<\h038E, \h038F, 1, \h03CD>>,
            <<\h0391, \h03A1, 1, \h03B1>>, <<\h03A3, \h03AB, 1, \h03C3>>,
            <<\h03CF, \h03CF, 1, \h03D7>>, <<\h03D8, \h03EE, 2, \h03D9>>,
            <<\h03F4, \h03F4, 1, \h03B8>>, <<\h03F7, \h03F7, 1, \h03F8>>,
            <<\h03F9, \h03F9, 1, \h03F2>>, <<\h03FA, \h03FA, 1, \h03FB>>,
            <<\h03FD, \h03FF, 1, \h037B>>, <<\h0400, \h040F, 1, \h0450>>,
            <<\h0410, \h042F, 1, \h0430>>, <<\h0460, \h0480, 2, \h0461>>,
            <<\h048A, \h04BE, 2, \h048B>>, <<\h04C0, \h04C0, 1, \h04CF>>,
            <<\h04C1, \h04CD, 2, \h04C2>>, <<\h04D0, \h052E, 2, \h04D1>>,
            <<\h0531, \h0556, 1, \h0561>>, <<\h10A0, \h10C5, 1, \h2D00>>,
            <<\h10C7, \h10C7, 1, \h2D27>>, <<\h10CD, \h10CD, 1, \h2D2D>>,
            <<\h13A0, \h13EF, 1, \hAB70>>, <<\h13F0, \h13F5, 1, \h13F8>>,
            <<\h1C89, \h1C89, 1, \h1C8A>>, <<\h1C90, \h1CBA, 1, \h10D0>>,
            <<\h1CBD, \h1CBF, 1, \h10FD>>, <<\h1E00, \h1E94, 2, \h1E01>>,
            <<\h1E9E, \h1E9E, 1, \h00DF>>, <<\h1EA0, \h1EFE, 2, \h1EA1>>,
            <<\h1F08, \h1F0F, 1, \h1F00>>, <<\h1F18, \h1F1D, 1, \h1F10>>,
            <<\h1F28, \h1F2F, 1, \h1F20>>, <<\h1F38, \h1F3F, 1, \h1F30>>,
            <<\h1F48, \h1F4D, 1, \h1F40>>, <<\h1F59, \h1F5F, 2, \h1F51>>,
            <<\h1F68, \h1F6F, 1, \h1F60>>, <<\h1F88, \h1F8F, 1, \h1F80>>,
            <<\h1F98, \h1F9F, 1, \h1F90>>, <<\h1FA8, \h1FAF, 1, \h1FA0>>,
            <<\h1FB8, \h1FB9, 1, \h1FB0>>, <<\h1FBA, \h1FBB, 1, \h1F70>>,
            <<\h1FBC, \h1FBC, 1, \h1FB3>>, <<\h1FC8, \h1FCB, 1, \h1F72>>,
            <<\h1FCC, \h1FCC, 1, \h1FC3>>, <<\h1FD8, \h1FD9, 1, \h1FD0>>,
            <<\h1FDA, \h1FDB, 1, \h1F76>>, <<\h1FE8, \h1FE9, 1, \h1FE0>>,
            <<\h1FEA, \h1FEB, 1, \h1F7A>>, <<\h1FEC, \h1FEC, 1, \h1FE5>>,
            <<\h1FF8, \h1FF9, 1, \h1F78>>, <<\h1FFA, \h1FFB, 1, \h1F7C>>,
            <<\h1FFC, \h1FFC, 1, \h1FF3>>, <<\h2126, \h2126, 1, \h03C9>>,
            <<\h212B, \h212B, 1, \h00E5>>, <<\h2132, \h2132, 1, \h214E>>,
            <<\h2160, \h216F, 1, \h2170>>, <<\h2183, \h2183, 1, \h2184>>,
            <<\h24B6, \h24CF, 1, \h24D0>>, <<\h2C00, \h2C2F, 1, \h2C30>>,
            <<\h2C60, \h2C60, 1, \h2C61>>, <<\h2C62, \h2C62, 1, \h026B>>,
            <<\h2C63, \h2C63, 1, \h1D7D>>, <<\h2C64, \h2C64, 1, \h027D>>,
            <<\h2C67, \h2C6B, 2, \h2C68>>, <<\h2C6D, \h2C6D, 1, \h0251>>,
            <<\h2C6E, \h2C6E, 1, \h0271>>, <<\h2C6F, \h2C6F, 1, \h0250>>,
            <<\h2C70, \h2C70, 1, \h0252>>, <<\h2C72, \h2C72, 1, \h2C73>>,
            <<\h2C75, \h2C75, 1, \h2C76>>, <<\h2C7E, \h2C7F, 1, \h023F>>,
            <<\h2C80, \h2CE2, 2, \h2C81>>, <<\h2CEB, \h2CED, 2, \h2CEC>>,
            <<\h2CF2, \h2CF2, 1, \h2CF3>>, <<\hA640, \hA66C, 2, \hA641>>,
            <<\hA680, \hA69A, 2, \hA681>>, <<\hA722, \hA72E, 2, \hA723>>,
            <<\hA732, \hA76E, 2, \hA733>>, <<\hA779, \hA77B, 2, \hA77A>>,
            <<\hA77D, \hA77D, 1, \h1D79>>, <<\hA77E, \hA786, 2, \hA77F>>,
            <<\hA78B, \hA78B, 1, \hA78C>>, <<\hA78D, \hA78D, 1, \h0265>>,
            <<\hA790, \hA792, 2, \hA791>>, <<\hA796, \hA7A8, 2, \hA797>>,
            <<\hA7AA, \hA7AA, 1, \h0266>>, <<\hA7AB, \hA7AB, 1, \h025C>>,
            <<\hA7AC, \hA7AC, 1, \h0261>>, <<\hA7AD, \hA7AD, 1, \h026C>>,
            <<\hA7AE, \hA7AE, 1, \h026A>>, <<\hA7B0, \hA7B0, 1, \h029E>>,
            <<\hA7B1, \hA7B1, 1, \h0287>>, <<\hA7B2, \hA7B2, 1, \h029D>>,
            <<\hA7B3, \hA7B3, 1, \hAB53>>, <<\hA7B4, \hA7C2, 2, \hA7B5>>,
            <<\hA7C4, \hA7C4, 1, \hA794>>, <<\hA7C5, \hA7C5, 1, \h0282>>,
            <<\hA7C6, \hA7C6, 1, \h1D8E>>, <<\hA7C7, \hA7C9, 2, \hA7C8>>,
            <<\hA7CB, \hA7CB, 1, \h0264>>, <<\hA7CC, \hA7DA, 2, \hA7CD>>,
            <<\hA7DC, \hA7DC, 1, \h019B>>, <<\hA7F5, \hA7F5, 1, \hA7F6>>,
            <<\hFF21, \hFF3A, 1, \hFF41>> }
        LowerLong == {
            <<"U+0130", <<"i", "U+0307">>>>, <<"U+212A", <<"k">>>> }
        LowerPairs ==
            LowerLong
            \cup UNION {{<<CodeUnit(n), << CodeUnit(n + r[4] - r[1]) >>>> :
                            n \in RunMembers(r)} : r \in LowerRuns}
    IN
        [c \in {q[1] : q \in LowerPairs} |->
            (CHOOSE q \in LowerPairs : q[1] = c)[2]]

UpperAstral ==
    LET
        \* Upper-case mappings of the code points beyond the basic plane
        UpperAstralRuns == {
            <<\h10428, \h1044F, 1, \h10400>>, <<\h104D8, \h104FB, 1, \h104B0>>,
            <<\h10597, \h105A1, 1, \h10570>>, <<\h105A3, \h105B1, 1, \h1057C>>,
            <<\h105B3, \h105B9, 1, \h1058C>>, <<\h105BB, \h105BC, 1, \h10594>>,
            <<\h10CC0, \h10CF2, 1, \h10C80>>, <<\h10D70, \h10D85, 1, \h10D50>>,
            <<\h118C0, \h118DF, 1, \h118A0>>, <<\h16E60, \h16E7F, 1, \h16E40>>,
            <<\h16EBB, \h16ED3, 1, \h16EA0>>, <<\h1E922, \h1E943, 1, \h1E900>> }
        UpperAstralPairs ==
            UNION {{<<SurrogatePair(n), SurrogatePair(n + r[4] - r[1])>> :
                       n \in RunMembers(r)} : r \in UpperAstralRuns}
    IN
        [p \in {q[1] : q \in UpperAstralPairs} |->
            (CHOOSE q \in UpperAstralPairs : q[1] = p)[2]]

LowerAstral ==
    LET
        LowerAstralRuns == {
            <<\h10400, \h10427, 1, \h10428>>, <<\h104B0, \h104D3, 1, \h104D8>>,
            <<\h10570, \h1057A, 1, \h10597>>, <<\h1057C, \h1058A, 1, \h105A3>>,
            <<\h1058C, \h10592, 1, \h105B3>>, <<\h10594, \h10595, 1, \h105BB>>,
            <<\h10C80, \h10CB2, 1, \h10CC0>>, <<\h10D50, \h10D65, 1, \h10D70>>,
            <<\h118A0, \h118BF, 1, \h118C0>>, <<\h16E40, \h16E5F, 1, \h16E60>>,
            <<\h16EA0, \h16EB8, 1, \h16EBB>>, <<\h1E900, \h1E921, 1, \h1E922>> }
        LowerAstralPairs ==
            UNION {{<<SurrogatePair(n), SurrogatePair(n + r[4] - r[1])>> :
                       n \in RunMembers(r)} : r \in LowerAstralRuns}
    IN
        [p \in {q[1] : q \in LowerAstralPairs} |->
            (CHOOSE q \in LowerAstralPairs : q[1] = p)[2]]

CaseIgnorable ==
    LET
        \* Runs <<first, last>> of the code points that are case-ignorable
        \* (apostrophes, accents, modifier letters and the like)
        CaseIgnorableRuns == {
            <<\h0027, \h0027>>, <<\h002E, \h002E>>, <<\h003A, \h003A>>,
            <<\h005E, \h005E>>, <<\h0060, \h0060>>, <<\h00A8, \h00A8>>,
            <<\h00AD, \h00AD>>, <<\h00AF, \h00AF>>, <<\h00B4, \h00B4>>,
            <<\h00B7, \h00B8>>, <<\h02B0, \h036F>>, <<\h0374, \h0375>>,
            <<\h037A, \h037A>>, <<\h0384, \h0385>>, <<\h0387, \h0387>>,
            <<\h0483, \h0489>>, <<\h0559, \h0559>>, <<\h055F, \h055F>>,
            <<\h0591, \h05BD>>, <<\h05BF, \h05BF>>, <<\h05C1, \h05C2>>,
            <<\h05C4, \h05C5>>, <<\h05C7, \h05C7>>, <<\h05F4, \h05F4>>,
            <<\h0600, \h0605>>, <<\h0610, \h061A>>, <<\h061C, \h061C>>,
            <<\h0640, \h0640>>, <<\h064B, \h065F>>, <<\h0670, \h0670>>,
            <<\h06D6, \h06DD>>, <<\h06DF, \h06E8>>, <<\h06EA, \h06ED>>,
            <<\h070F, \h070F>>, <<\h0711, \h0711>>, <<\h0730, \h074A>>,
            <<\h07A6, \h07B0>>, <<\h07EB, \h07F5>>, <<\h07FA, \h07FA>>,
            <<\h07FD, \h07FD>>, <<\h0816, \h082D>>, <<\h0859, \h085B>>,
            <<\h0888, \h0888>>, <<\h0890, \h0891>>, <<\h0897, \h089F>>,
            <<\h08C9, \h0902>>, <<\h093A, \h093A>>, <<\h093C, \h093C>>,
            <<\h0941, \h0948>>, <<\h094D, \h094D>>, <<\h0951, \h0957>>,
            <<\h0962, \h0963>>, <<\h0971, \h0971>>, <<\h0981, \h0981>>,
            <<\h09BC, \h09BC>>, <<\h09C1, \h09C4>>, <<\h09CD, \h09CD>>,
            <<\h09E2, \h09E3>>, <<\h09FE, \h09FE>>, <<\h0A01, \h0A02>>,
            <<\h0A3C, \h0A3C>>, <<\h0A41, \h0A42>>, <<\h0A47, \h0A48>>,
            <<\h0A4B, \h0A4D>>, <<\h0A51, \h0A51>>, <<\h0A70, \h0A71>>,
            <<\h0A75, \h0A75>>, <<\h0A81, \h0A82>>, <<\h0ABC, \h0ABC>>,
            <<\h0AC1, \h0AC5>>, <<\h0AC7, \h0AC8>>, <<\h0ACD, \h0ACD>>,
            <<\h0AE2, \h0AE3>>, <<\h0AFA, \h0AFF>>, <<\h0B01, \h0B01>>,
            <<\h0B3C, \h0B3C>>, <<\h0B3F, \h0B3F>>, <<\h0B41, \h0B44>>,
            <<\h0B4D, \h0B4D>>, <<\h0B55, \h0B56>>, <<\h0B62, \h0B63>>,
            <<\h0B82, \h0B82>>, <<\h0BC0, \h0BC0>>, <<\h0BCD, \h0BCD>>,
            <<\h0C00, \h0C00>>, <<\h0C04, \h0C04>>, <<\h0C3C, \h0C3C>>,
            <<\h0C3E, \h0C40>>, <<\h0C46, \h0C48>>, <<\h0C4A, \h0C4D>>,
            <<\h0C55, \h0C56>>, <<\h0C62, \h0C63>>, <<\h0C81, \h0C81>>,
            <<\h0CBC, \h0CBC>>, <<\h0CBF, \h0CBF>>, <<\h0CC6, \h0CC6>>,
            <<\h0CCC, \h0CCD>>, <<\h0CE2, \h0CE3>>, <<\h0D00, \h0D01>>,
            <<\h0D3B, \h0D3C>>, <<\h0D41, \h0D44>>, <<\h0D4D, \h0D4D>>,
            <<\h0D62, \h0D63>>, <<\h0D81, \h0D81>>, <<\h0DCA, \h0DCA>>,
            <<\h0DD2, \h0DD4>>, <<\h0DD6, \h0DD6>>, <<\h0E31, \h0E31>>,
            <<\h0E34, \h0E3A>>, <<\h0E46, \h0E4E>>, <<\h0EB1, \h0EB1>>,
            <<\h0EB4, \h0EBC>>, <<\h0EC6, \h0EC6>>, <<\h0EC8, \h0ECE>>,
            <<\h0F18, \h0F19>>, <<\h0F35, \h0F35>>, <<\h0F37, \h0F37>>,
            <<\h0F39, \h0F39>>, <<\h0F71, \h0F7E>>, <<\h0F80, \h0F84>>,
            <<\h0F86, \h0F87>>, <<\h0F8D, \h0F97>>, <<\h0F99, \h0FBC>>,
            <<\h0FC6, \h0FC6>>, <<\h102D, \h1030>>, <<\h1032, \h1037>>,
            <<\h1039, \h103A>>, <<\h103D, \h103E>>, <<\h1058, \h1059>>,
            <<\h105E, \h1060>>, <<\h1071, \h1074>>, <<\h1082, \h1082>>,
            <<\h1085, \h1086>>, <<\h108D, \h108D>>, <<\h109D, \h109D>>,
            <<\h10FC, \h10FC>>, <<\h135D, \h135F>>, <<\h1712, \h1714>>,
            <<\h1732, \h1733>>, <<\h1752, \h1753>>, <<\h1772, \h1773>>,
            <<\h17B4, \h17B5>>, <<\h17B7, \h17BD>>, <<\h17C6, \h17C6>>,
            <<\h17C9, \h17D3>>, <<\h17D7, \h17D7>>, <<\h17DD, \h17DD>>,
            <<\h180B, \h180F>>, <<\h1843, \h1843>>, <<\h1885, \h1886>>,
            <<\h18A9, \h18A9>>, <<\h1920, \h1922>>, <<\h1927, \h1928>>,
            <<\h1932, \h1932>>, <<\h1939, \h193B>>, <<\h1A17, \h1A18>>,
            <<\h1A1B, \h1A1B>>, <<\h1A56, \h1A56>>, <<\h1A58, \h1A5E>>,
            <<\h1A60, \h1A60>>, <<\h1A62, \h1A62>>, <<\h1A65, \h1A6C>>,
            <<\h1A73, \h1A7C>>, <<\h1A7F, \h1A7F>>, <<\h1AA7, \h1AA7>>,
            <<\h1AB0, \h1ADD>>, <<\h1AE0, \h1AEB>>, <<\h1B00, \h1B03>>,
            <<\h1B34, \h1B34>>, <<\h1B36, \h1B3A>>, <<\h1B3C, \h1B3C>>,
            <<\h1B42, \h1B42>>, <<\h1B6B, \h1B73>>, <<\h1B80, \h1B81>>,
            <<\h1BA2, \h1BA5>>, <<\h1BA8, \h1BA9>>, <<\h1BAB, \h1BAD>>,
            <<\h1BE6, \h1BE6>>, <<\h1BE8, \h1BE9>>, <<\h1BED, \h1BED>>,
            <<\h1BEF, \h1BF1>>, <<\h1C2C, \h1C33>>, <<\h1C36, \h1C37>>,
            <<\h1C78, \h1C7D>>, <<\h1CD0, \h1CD2>>, <<\h1CD4, \h1CE0>>,
            <<\h1CE2, \h1CE8>>, <<\h1CED, \h1CED>>, <<\h1CF4, \h1CF4>>,
            <<\h1CF8, \h1CF9>>, <<\h1D2C, \h1D6A>>, <<\h1D78, \h1D78>>,
            <<\h1D9B, \h1DFF>>, <<\h1FBD, \h1FBD>>, <<\h1FBF, \h1FC1>>,
            <<\h1FCD, \h1FCF>>, <<\h1FDD, \h1FDF>>, <<\h1FED, \h1FEF>>,
            <<\h1FFD, \h1FFE>>, <<\h200B, \h200F>>, <<\h2018, \h2019>>,
            <<\h2024, \h2024>>, <<\h2027, \h2027>>, <<\h202A, \h202E>>,
            <<\h2060, \h2064>>, <<\h2066, \h206F>>, <<\h2071, \h2071>>,
            <<\h207F, \h207F>>, <<\h2090, \h209C>>, <<\h20D0, \h20F0>>,
            <<\h2C7C, \h2C7D>>, <<\h2CEF, \h2CF1>>, <<\h2D6F, \h2D6F>>,
            <<\h2D7F, \h2D7F>>, <<\h2DE0, \h2DFF>>, <<\h2E2F, \h2E2F>>,
            <<\h3005, \h3005>>, <<\h302A, \h302D>>, <<\h3031, \h3035>>,
            <<\h303B, \h303B>>, <<\h3099, \h309E>>, <<\h30FC, \h30FE>>,
            <<\hA015, \hA015>>, <<\hA4F8, \hA4FD>>, <<\hA60C, \hA60C>>,
            <<\hA66F, \hA672>>, <<\hA674, \hA67D>>, <<\hA67F, \hA67F>>,
            <<\hA69C, \hA69F>>, <<\hA6F0, \hA6F1>>, <<\hA700, \hA721>>,
            <<\hA770, \hA770>>, <<\hA788, \hA78A>>, <<\hA7F1, \hA7F4>>,
            <<\hA7F8, \hA7F9>>, <<\hA802, \hA802>>, <<\hA806, \hA806>>,
            <<\hA80B, \hA80B>>, <<\hA825, \hA826>>, <<\hA82C, \hA82C>>,
            <<\hA8C4, \hA8C5>>, <<\hA8E0, \hA8F1>>, <<\hA8FF, \hA8FF>>,
            <<\hA926, \hA92D>>, <<\hA947, \hA951>>, <<\hA980, \hA982>>,
            <<\hA9B3, \hA9B3>>, <<\hA9B6, \hA9B9>>, <<\hA9BC, \hA9BD>>,
            <<\hA9CF, \hA9CF>>, <<\hA9E5, \hA9E6>>, <<\hAA29, \hAA2E>>,
            <<\hAA31, \hAA32>>, <<\hAA35, \hAA36>>, <<\hAA43, \hAA43>>,
            <<\hAA4C, \hAA4C>>, <<\hAA70, \hAA70>>, <<\hAA7C, \hAA7C>>,
            <<\hAAB0, \hAAB0>>, <<\hAAB2, \hAAB4>>, <<\hAAB7, \hAAB8>>,
            <<\hAABE, \hAABF>>, <<\hAAC1, \hAAC1>>, <<\hAADD, \hAADD>>,
            <<\hAAEC, \hAAED>>, <<\hAAF3, \hAAF4>>, <<\hAAF6, \hAAF6>>,
            <<\hAB5B, \hAB5F>>, <<\hAB69, \hAB6B>>, <<\hABE5, \hABE5>>,
            <<\hABE8, \hABE8>>, <<\hABED, \hABED>>, <<\hFB1E, \hFB1E>>,
            <<\hFBB2, \hFBC2>>, <<\hFE00, \hFE0F>>, <<\hFE13, \hFE13>>,
            <<\hFE20, \hFE2F>>, <<\hFE52, \hFE52>>, <<\hFE55, \hFE55>>,
            <<\hFEFF, \hFEFF>>, <<\hFF07, \hFF07>>, <<\hFF0E, \hFF0E>>,
            <<\hFF1A, \hFF1A>>, <<\hFF3E, \hFF3E>>, <<\hFF40, \hFF40>>,
            <<\hFF70, \hFF70>>, <<\hFF9E, \hFF9F>>, <<\hFFE3, \hFFE3>>,
            <<\hFFF9, \hFFFB>> }
        CaseIgnorableAstralRuns == {
            <<\h101FD, \h101FD>>, <<\h102E0, \h102E0>>, <<\h10376, \h1037A>>,
            <<\h10780, \h10785>>, <<\h10787, \h107B0>>, <<\h107B2, \h107BA>>,
            <<\h10A01, \h10A03>>, <<\h10A05, \h10A06>>, <<\h10A0C, \h10A0F>>,
            <<\h10A38, \h10A3A>>, <<\h10A3F, \h10A3F>>, <<\h10AE5, \h10AE6>>,
            <<\h10D24, \h10D27>>, <<\h10D4E, \h10D4E>>, <<\h10D69, \h10D6D>>,
            <<\h10D6F, \h10D6F>>, <<\h10EAB, \h10EAC>>, <<\h10EC5, \h10EC5>>,
            <<\h10EFA, \h10EFF>>, <<\h10F46, \h10F50>>, <<\h10F82, \h10F85>>,
            <<\h11001, \h11001>>, <<\h11038, \h11046>>, <<\h11070, \h11070>>,
            <<\h11073, \h11074>>, <<\h1107F, \h11081>>, <<\h110B3, \h110B6>>,
            <<\h110B9, \h110BA>>, <<\h110BD, \h110BD>>, <<\h110C2, \h110C2>>,
            <<\h110CD, \h110CD>>, <<\h11100, \h11102>>, <<\h11127, \h1112B>>,
            <<\h1112D, \h11134>>, <<\h11173, \h11173>>, <<\h11180, \h11181>>,
            <<\h111B6, \h111BE>>, <<\h111C9, \h111CC>>, <<\h111CF, \h111CF>>,
            <<\h1122F, \h11231>>, <<\h11234, \h11234>>, <<\h11236, \h11237>>,
            <<\h1123E, \h1123E>>, <<\h11241, \h11241>>, <<\h112DF, \h112DF>>,
            <<\h112E3, \h112EA>>, <<\h11300, \h11301>>, <<\h1133B, \h1133C>>,
            <<\h11340, \h11340>>, <<\h11366, \h1136C>>, <<\h11370, \h11374>>,
            <<\h113BB, \h113C0>>, <<\h113CE, \h113CE>>, <<\h113D0, \h113D0>>,
            <<\h113D2, \h113D2>>, <<\h113E1, \h113E2>>, <<\h11438, \h1143F>>,
            <<\h11442, \h11444>>, <<\h11446, \h11446>>, <<\h1145E, \h1145E>>,
            <<\h114B3, \h114B8>>, <<\h114BA, \h114BA>>, <<\h114BF, \h114C0>>,
            <<\h114C2, \h114C3>>, <<\h115B2, \h115B5>>, <<\h115BC, \h115BD>>,
            <<\h115BF, \h115C0>>, <<\h115DC, \h115DD>>, <<\h11633, \h1163A>>,
            <<\h1163D, \h1163D>>, <<\h1163F, \h11640>>, <<\h116AB, \h116AB>>,
            <<\h116AD, \h116AD>>, <<\h116B0, \h116B5>>, <<\h116B7, \h116B7>>,
            <<\h1171D, \h1171D>>, <<\h1171F, \h1171F>>, <<\h11722, \h11725>>,
            <<\h11727, \h1172B>>, <<\h1182F, \h11837>>, <<\h11839, \h1183A>>,
            <<\h1193B, \h1193C>>, <<\h1193E, \h1193E>>, <<\h11943, \h11943>>,
            <<\h119D4, \h119D7>>, <<\h119DA, \h119DB>>, <<\h119E0, \h119E0>>,
            <<\h11A01, \h11A0A>>, <<\h11A33, \h11A38>>, <<\h11A3B, \h11A3E>>,
            <<\h11A47, \h11A47>>, <<\h11A51, \h11A56>>, <<\h11A59, \h11A5B>>,
            <<\h11A8A, \h11A96>>, <<\h11A98, \h11A99>>, <<\h11B60, \h11B60>>,
            <<\h11B62, \h11B64>>, <<\h11B66, \h11B66>>, <<\h11C30, \h11C36>>,
            <<\h11C38, \h11C3D>>, <<\h11C3F, \h11C3F>>, <<\h11C92, \h11CA7>>,
            <<\h11CAA, \h11CB0>>, <<\h11CB2, \h11CB3>>, <<\h11CB5, \h11CB6>>,
            <<\h11D31, \h11D36>>, <<\h11D3A, \h11D3A>>, <<\h11D3C, \h11D3D>>,
            <<\h11D3F, \h11D45>>, <<\h11D47, \h11D47>>, <<\h11D90, \h11D91>>,
            <<\h11D95, \h11D95>>, <<\h11D97, \h11D97>>, <<\h11DD9, \h11DD9>>,
            <<\h11EF3, \h11EF4>>, <<\h11F00, \h11F01>>, <<\h11F36, \h11F3A>>,
            <<\h11F40, \h11F40>>, <<\h11F42, \h11F42>>, <<\h11F5A, \h11F5A>>,
            <<\h13430, \h13440>>, <<\h13447, \h13455>>, <<\h1611E, \h16129>>,
            <<\h1612D, \h1612F>>, <<\h16AF0, \h16AF4>>, <<\h16B30, \h16B36>>,
            <<\h16B40, \h16B43>>, <<\h16D40, \h16D42>>, <<\h16D6B, \h16D6C>>,
            <<\h16F4F, \h16F4F>>, <<\h16F8F, \h16F9F>>, <<\h16FE0, \h16FE1>>,
            <<\h16FE3, \h16FE4>>, <<\h16FF2, \h16FF3>>, <<\h1AFF0, \h1AFF3>>,
            <<\h1AFF5, \h1AFFB>>, <<\h1AFFD, \h1AFFE>>, <<\h1BC9D, \h1BC9E>>,
            <<\h1BCA0, \h1BCA3>>, <<\h1CF00, \h1CF2D>>, <<\h1CF30, \h1CF46>>,
            <<\h1D167, \h1D169>>, <<\h1D173, \h1D182>>, <<\h1D185, \h1D18B>>,
            <<\h1D1AA, \h1D1AD>>, <<\h1D242, \h1D244>>, <<\h1DA00, \h1DA36>>,
            <<\h1DA3B, \h1DA6C>>, <<\h1DA75, \h1DA75>>, <<\h1DA84, \h1DA84>>,
            <<\h1DA9B, \h1DA9F>>, <<\h1DAA1, \h1DAAF>>, <<\h1E000, \h1E006>>,
            <<\h1E008, \h1E018>>, <<\h1E01B, \h1E021>>, <<\h1E023, \h1E024>>,
            <<\h1E026, \h1E02A>>, <<\h1E030, \h1E06D>>, <<\h1E08F, \h1E08F>>,
            <<\h1E130, \h1E13D>>, <<\h1E2AE, \h1E2AE>>, <<\h1E2EC, \h1E2EF>>,
            <<\h1E4EB, \h1E4EF>>, <<\h1E5EE, \h1E5EF>>, <<\h1E6E3, \h1E6E3>>,
            <<\h1E6E6, \h1E6E6>>, <<\h1E6EE, \h1E6EF>>, <<\h1E6F5, \h1E6F5>>,
            <<\h1E6FF, \h1E6FF>>, <<\h1E8D0, \h1E8D6>>, <<\h1E944, \h1E94B>>,
            <<\h1F3FB, \h1F3FF>>, <<\hE0001, \hE0001>>, <<\hE0020, \hE007F>>,
            <<\hE0100, \hE01EF>> }
    IN
        UNION {{<< CodeUnit(n) >> : n \in r[1]..r[2]} : r \in CaseIgnorableRuns}
        \cup UNION {{SurrogatePair(n) : n \in r[1]..r[2]} :
                       r \in CaseIgnorableAstralRuns}

Cased ==
    LET
        \* Runs of the cased letters that are not case-ignorable
        CasedRuns == {
            <<\h0041, \h005A>>, <<\h0061, \h007A>>, <<\h00AA, \h00AA>>,
            <<\h00B5, \h00B5>>, <<\h00BA, \h00BA>>, <<\h00C0, \h00D6>>,
            <<\h00D8, \h00F6>>, <<\h00F8, \h01BA>>, <<\h01BC, \h01BF>>,
            <<\h01C4, \h0293>>, <<\h0296, \h02AF>>, <<\h0370, \h0373>>,
            <<\h0376, \h0377>>, <<\h037B, \h037D>>, <<\h037F, \h037F>>,
            <<\h0386, \h0386>>, <<\h0388, \h038A>>, <<\h038C, \h038C>>,
            <<\h038E, \h03A1>>, <<\h03A3, \h03F5>>, <<\h03F7, \h0481>>,
            <<\h048A, \h052F>>, <<\h0531, \h0556>>, <<\h0560, \h0588>>,
            <<\h10A0, \h10C5>>, <<\h10C7, \h10C7>>, <<\h10CD, \h10CD>>,
            <<\h10D0, \h10FA>>, <<\h10FD, \h10FF>>, <<\h13A0, \h13F5>>,
            <<\h13F8, \h13FD>>, <<\h1C80, \h1C8A>>, <<\h1C90, \h1CBA>>,
            <<\h1CBD, \h1CBF>>, <<\h1D00, \h1D2B>>, <<\h1D6B, \h1D77>>,
            <<\h1D79, \h1D9A>>, <<\h1E00, \h1F15>>, <<\h1F18, \h1F1D>>,
            <<\h1F20, \h1F45>>, <<\h1F48, \h1F4D>>, <<\h1F50, \h1F57>>,
            <<\h1F59, \h1F59>>, <<\h1F5B, \h1F5B>>, <<\h1F5D, \h1F5D>>,
            <<\h1F5F, \h1F7D>>, <<\h1F80, \h1FB4>>, <<\h1FB6, \h1FBC>>,
            <<\h1FBE, \h1FBE>>, <<\h1FC2, \h1FC4>>, <<\h1FC6, \h1FCC>>,
            <<\h1FD0, \h1FD3>>, <<\h1FD6, \h1FDB>>, <<\h1FE0, \h1FEC>>,
            <<\h1FF2, \h1FF4>>, <<\h1FF6, \h1FFC>>, <<\h2102, \h2102>>,
            <<\h2107, \h2107>>, <<\h210A, \h2113>>, <<\h2115, \h2115>>,
            <<\h2119, \h211D>>, <<\h2124, \h2124>>, <<\h2126, \h2126>>,
            <<\h2128, \h2128>>, <<\h212A, \h212D>>, <<\h212F, \h2134>>,
            <<\h2139, \h2139>>, <<\h213C, \h213F>>, <<\h2145, \h2149>>,
            <<\h214E, \h214E>>, <<\h2160, \h217F>>, <<\h2183, \h2184>>,
            <<\h24B6, \h24E9>>, <<\h2C00, \h2C7B>>, <<\h2C7E, \h2CE4>>,
            <<\h2CEB, \h2CEE>>, <<\h2CF2, \h2CF3>>, <<\h2D00, \h2D25>>,
            <<\h2D27, \h2D27>>, <<\h2D2D, \h2D2D>>, <<\hA640, \hA66D>>,
            <<\hA680, \hA69B>>, <<\hA722, \hA76F>>, <<\hA771, \hA787>>,
            <<\hA78B, \hA78E>>, <<\hA790, \hA7DC>>, <<\hA7F5, \hA7F6>>,
            <<\hA7FA, \hA7FA>>, <<\hAB30, \hAB5A>>, <<\hAB60, \hAB68>>,
            <<\hAB70, \hABBF>>, <<\hFB00, \hFB06>>, <<\hFB13, \hFB17>>,
            <<\hFF21, \hFF3A>>, <<\hFF41, \hFF5A>> }
        CasedAstralRuns == {
            <<\h10400, \h1044F>>, <<\h104B0, \h104D3>>, <<\h104D8, \h104FB>>,
            <<\h10570, \h1057A>>, <<\h1057C, \h1058A>>, <<\h1058C, \h10592>>,
            <<\h10594, \h10595>>, <<\h10597, \h105A1>>, <<\h105A3, \h105B1>>,
            <<\h105B3, \h105B9>>, <<\h105BB, \h105BC>>, <<\h10C80, \h10CB2>>,
            <<\h10CC0, \h10CF2>>, <<\h10D50, \h10D65>>, <<\h10D70, \h10D85>>,
            <<\h118A0, \h118DF>>, <<\h16E40, \h16E7F>>, <<\h16EA0, \h16EB8>>,
            <<\h16EBB, \h16ED3>>, <<\h1D400, \h1D454>>, <<\h1D456, \h1D49C>>,
            <<\h1D49E, \h1D49F>>, <<\h1D4A2, \h1D4A2>>, <<\h1D4A5, \h1D4A6>>,
            <<\h1D4A9, \h1D4AC>>, <<\h1D4AE, \h1D4B9>>, <<\h1D4BB, \h1D4BB>>,
            <<\h1D4BD, \h1D4C3>>, <<\h1D4C5, \h1D505>>, <<\h1D507, \h1D50A>>,
            <<\h1D50D, \h1D514>>, <<\h1D516, \h1D51C>>, <<\h1D51E, \h1D539>>,
            <<\h1D53B, \h1D53E>>, <<\h1D540, \h1D544>>, <<\h1D546, \h1D546>>,
            <<\h1D54A, \h1D550>>, <<\h1D552, \h1D6A5>>, <<\h1D6A8, \h1D6C0>>,
            <<\h1D6C2, \h1D6DA>>, <<\h1D6DC, \h1D6FA>>, <<\h1D6FC, \h1D714>>,
            <<\h1D716, \h1D734>>, <<\h1D736, \h1D74E>>, <<\h1D750, \h1D76E>>,
            <<\h1D770, \h1D788>>, <<\h1D78A, \h1D7A8>>, <<\h1D7AA, \h1D7C2>>,
            <<\h1D7C4, \h1D7CB>>, <<\h1DF00, \h1DF09>>, <<\h1DF0B, \h1DF1E>>,
            <<\h1DF25, \h1DF2A>>, <<\h1E900, \h1E943>>, <<\h1F130, \h1F149>>,
            <<\h1F150, \h1F169>>, <<\h1F170, \h1F189>> }
    IN
        UNION {{<< CodeUnit(n) >> : n \in r[1]..r[2]} : r \in CasedRuns}
        \cup UNION {{SurrogatePair(n) : n \in r[1]..r[2]} : r \in CasedAstralRuns}

\* String.prototype.toUpperCase of one code unit: the code units it becomes
UpperChar(c) ==
    IF \E i \in 1..26 : LowerLetters[i] = c
    THEN << UpperLetters[CHOOSE i \in 1..26 : LowerLetters[i] = c] >>
    ELSE IF c \in DOMAIN UpperSpecial THEN UpperSpecial[c]
    ELSE << c >>

\* String.prototype.toLowerCase of one code unit: the code units it becomes
LowerChar(c) ==
    IF \E i \in 1..26 : UpperLetters[i] = c
    THEN << LowerLetters[CHOOSE i \in 1..26 : UpperLetters[i] = c] >>
    ELSE IF c \in DOMAIN LowerSpecial THEN LowerSpecial[c]
    ELSE << c >>

\* The capital sigma at place i of the code points p is a final one: a
\* cased letter comes before it and none after it, case-ignorable code
\* points between them not counting
FinalSigma(p, i) ==
    /\ p[i] = << "U+03A3" >>
    /\ \E j \in 1..(i - 1) :
           /\ p[j] \in Cased
           /\ \A k \in (j + 1)..(i - 1) : p[k] \in CaseIgnorable
    /\ ~\E j \in (i + 1)..Len(p) :
           /\ p[j] \in Cased
           /\ \A k \in (i + 1)..(j - 1) : p[k] \in CaseIgnorable

\* String.prototype.toUpperCase
toUpperCase(s) ==
    LET p == CodePoints(s)
    IN  Flatten([i \in 1..Len(p) |->
                    IF Len(p[i]) = 1 THEN UpperChar(p[i][1])
                    ELSE IF p[i] \in DOMAIN UpperAstral THEN UpperAstral[p[i]]
                    ELSE p[i]])

\* String.prototype.toLowerCase
toLowerCase(s) ==
    LET p == CodePoints(s)
    IN  Flatten([i \in 1..Len(p) |->
                    IF FinalSigma(p, i) THEN << "U+03C2" >>
                    ELSE IF Len(p[i]) = 1 THEN LowerChar(p[i][1])
                    ELSE IF p[i] \in DOMAIN LowerAstral THEN LowerAstral[p[i]]
                    ELSE p[i]])

\* WhiteSpace and LineTerminator of ECMAScript, the code units that
\* trim, parseInt and parseFloat strip
WhiteSpace ==
    { "\t", "\n", "U+000B", "\f", "\r", " ", "U+00A0", "U+1680",
      "U+2000", "U+2001", "U+2002", "U+2003", "U+2004", "U+2005", "U+2006",
      "U+2007", "U+2008", "U+2009", "U+200A", "U+2028", "U+2029", "U+202F",
      "U+205F", "U+3000", "U+FEFF" }

\* String.prototype.trim: strip leading and trailing white space
RECURSIVE trimStart(_)
trimStart(s) ==
    IF Len(s) > 0 /\ Head(s) \in WhiteSpace THEN trimStart(Tail(s)) ELSE s

RECURSIVE trimEnd(_)
trimEnd(s) ==
    IF Len(s) > 0 /\ s[Len(s)] \in WhiteSpace
    THEN trimEnd(SubSeq(s, 1, Len(s) - 1))
    ELSE s

trim(s) == trimEnd(trimStart(s))

\* String.prototype.includes
includes(s, q) ==
    \E i \in 0..(Len(s) - Len(q)) : SubSeq(s, i + 1, i + Len(q)) = q

\* String.prototype.startsWith
startsWith(s, q) ==
    Len(q) <= Len(s) /\ SubSeq(s, 1, Len(q)) = q

\* Array.prototype.includes on a list of strings
Contains(list, x) == \E i \in 1..Len(list) : list[i] = x

\* Array.prototype.slice(0, n)
slice0(list, n) == SubSeq(list, 1, IF Len(list) < n THEN Len(list) ELSE n)

\* The elements of a list, as a set
Range(list) == {list[i] : i \in 1..Len(list)}


\* ------------------------------------------------------------------------
\* Numbers: a JavaScript number is an IEEE 754 double: NaN, +Infinity,
\* -Infinity, or a finite value (-1)^neg * mant * 2^exp.  The mantissa is
\* a natural number kept as the sequence of its digits to the base 2^15,
\* lowest digit first and without leading zero digits (<< >> is zero), so
\* that its 53 bits fit the integers of the checker.  A finite value is
\* kept in one form only: the mantissa is odd, or it is zero with exp 0;
\* zero has a sign.  Every operation computes the exact result and rounds
\* it once to the nearest double, ties to the even mantissa.  An operation
\* takes the values of its operands, each computed once, as a call of
\* JavaScript takes its arguments.
\* ------------------------------------------------------------------------

\* The base of the digits of a natural number, and its number of bits
LimbBits == 15

LimbBase == 2 ^ LimbBits

\* Precision of a double, the exponent of its smallest positive value, and
\* the power of two that no finite double reaches
MantissaBits == 53

MinExponent == -1074

OverflowBits == 1024

\* F at the value of v, and at the values of v and w
With(v, F(_)) == CHOOSE result \in { F(x) : x \in { v } } : TRUE

With2(v, w, F(_, _)) ==
    CHOOSE result \in { F(x, y) : x \in { v }, y \in { w } } : TRUE

\* The digit of a at place i, zero beyond its length
Digit(a, i) == IF i <= Len(a) THEN a[i] ELSE 0

\* A digit sequence without its leading zero digits
BigTrim(digits) ==
    With(digits, LAMBDA a :
        LET used == {i \in 1..Len(a) : a[i] # 0}
        IN  IF used = {} THEN << >>
            ELSE SubSeq(a, 1, CHOOSE i \in used : \A j \in used : j <= i))

\* The natural number k as a digit sequence, and back
BigOf(k) ==
    BigTrim(<< k % LimbBase, (k \div LimbBase) % LimbBase,
               k \div (LimbBase * LimbBase) >>)

IntOf(digits) ==
    With(digits, LAMBDA a :
        Digit(a, 1) + LimbBase * Digit(a, 2)
        + LimbBase * LimbBase * Digit(a, 3))

\* -1, 0 or 1 as a is less than, equal to or greater than b
BigCompare(left, right) ==
    With2(left, right, LAMBDA a, b :
        IF Len(a) # Len(b) THEN (IF Len(a) < Len(b) THEN -1 ELSE 1)
        ELSE LET diff == {i \in 1..Len(a) : a[i] # b[i]}
             IN  IF diff = {} THEN 0
                 ELSE LET top == CHOOSE i \in diff : \A j \in diff : j <= i
                      IN  IF a[top] < b[top] THEN -1 ELSE 1)

\* a + b: the digits are added place by place; a carry enters place i
\* when a lower place overflows and every place between passes it on
BigAdd(left, right) ==
    With2(left, right, LAMBDA a, b :
        LET n == IF Len(a) < Len(b) THEN Len(b) ELSE Len(a)
            sum == [i \in 1..n |-> Digit(a, i) + Digit(b, i)]
            Carry(i) ==
                IF i = 1 THEN 0
                ELSE IF sum[i - 1] # LimbBase - 1
                THEN (IF sum[i - 1] >= LimbBase THEN 1 ELSE 0)
                ELSE IF \E j \in 1..(i - 2) :
                            /\ sum[j] >= LimbBase
                            /\ \A k \in (j + 1)..(i - 2) :
                                  sum[k] = LimbBase - 1
                THEN 1 ELSE 0
        IN  BigTrim([i \in 1..(n + 1) |->
                        ((IF i <= n THEN sum[i] ELSE 0) + Carry(i))
                        % LimbBase]))

\* a - b for a >= b, with borrows as BigAdd has carries
BigSub(left, right) ==
    With2(left, right, LAMBDA a, b :
        LET diff == [i \in 1..Len(a) |-> a[i] - Digit(b, i)]
            Borrow(i) ==
                IF i = 1 THEN 0
                ELSE IF diff[i - 1] # 0
                THEN (IF diff[i - 1] < 0 THEN 1 ELSE 0)
                ELSE IF \E j \in 1..(i - 2) :
                            /\ diff[j] < 0
                            /\ \A k \in (j + 1)..(i - 2) : diff[k] = 0
                THEN 1 ELSE 0
        IN  BigTrim([i \in 1..Len(a) |->
                        (diff[i] - Borrow(i)) % LimbBase]))

\* a * LimbBase^count
BigShiftDigits(digits, count) ==
    With(digits, LAMBDA a :
        IF Len(a) = 0 THEN a ELSE [i \in 1..count |-> 0] \o a)

\* a * k for a whole number k in 0..LimbBase: the low digits of the
\* products of the places, plus their high digits one place up
BigTimesSmall(digits, k) ==
    With(digits, LAMBDA a :
        BigAdd([i \in 1..Len(a) |-> (a[i] * k) % LimbBase],
               << 0 >> \o [i \in 1..Len(a) |-> (a[i] * k) \div LimbBase]))

\* a * b, by the halves of b
RECURSIVE BigTimes(_, _)
BigTimes(left, right) ==
    With2(left, right, LAMBDA a, b :
        IF Len(b) = 0 THEN << >>
        ELSE IF Len(b) = 1 THEN BigTimesSmall(a, b[1])
        ELSE LET half == Len(b) \div 2
             IN  BigAdd(BigTimes(a, BigTrim(SubSeq(b, 1, half))),
                        BigShiftDigits(
                            BigTimes(a, SubSeq(b, half + 1, Len(b))),
                            half)))

\* a * 2^bits and the whole part of a / 2^bits
BigShiftLeft(a, bits) ==
    BigShiftDigits(BigTimesSmall(a, 2 ^ (bits % LimbBits)),
                   bits \div LimbBits)

BigShiftRight(digits, bits) ==
    With(digits, LAMBDA a :
        LET skip == bits \div LimbBits
            low == bits % LimbBits
        IN  IF skip >= Len(a) THEN << >>
            ELSE BigTrim([i \in 1..(Len(a) - skip) |->
                             (a[i + skip] \div (2 ^ low))
                             + (Digit(a, i + skip + 1) % (2 ^ low))
                               * (2 ^ (LimbBits - low))]))

\* The number of bits of a: 0 for zero
BitLength(digits) ==
    With(digits, LAMBDA a :
        IF Len(a) = 0 THEN 0
        ELSE LimbBits * (Len(a) - 1)
             + (CHOOSE b \in 1..LimbBits :
                    2 ^ (b - 1) <= a[Len(a)] /\ a[Len(a)] < 2 ^ b))

\* The number of zero bits at the low end of a # 0
TrailingZeros(digits) ==
    With(digits, LAMBDA a :
        LET first == CHOOSE i \in 1..Len(a) :
                         a[i] # 0 /\ \A j \in 1..(i - 1) : a[j] = 0
        IN  LimbBits * (first - 1)
            + (CHOOSE z \in 0..(LimbBits - 1) :
                   a[first] % (2 ^ z) = 0 /\ a[first] % (2 ^ (z + 1)) # 0))

\* Quotient q and remainder r of a by b # 0, for a quotient below LimbBase.
\* With both numbers cut down to the LimbBits leading bits of b, the
\* quotient lies between top(a) / (top(b) + 1) and top(a) / top(b), which
\* are at most 2 apart
BigDivStep(left, right) ==
    With2(left, right, LAMBDA a, b :
        LET cut == IF BitLength(b) > LimbBits
                   THEN BitLength(b) - LimbBits ELSE 0
            Fits(q) == BigCompare(BigTimesSmall(b, q), a) <= 0
        IN  With2(IntOf(BigShiftRight(a, cut)), IntOf(BigShiftRight(b, cut)),
                  LAMBDA topA, topB :
            With(IF cut = 0 THEN topA \div topB
                 ELSE CHOOSE q \in (topA \div (topB + 1))..(topA \div topB) :
                          Fits(q) /\ (q = topA \div topB \/ ~Fits(q + 1)),
                 LAMBDA quotient :
                [q |-> quotient,
                 r |-> BigSub(a, BigTimesSmall(b, quotient))])))

\* Long division by b # 0 of the digits of a at the places from..to,
\* highest first, behind the remainder carry < b that the higher places
\* left: the digits q of the quotient, highest first, and the remainder r
RECURSIVE BigDivRange(_, _, _, _, _)
BigDivRange(a, b, from, to, carry) ==
    IF from = to
    THEN With(BigDivStep(BigTrim(<< a[from] >> \o carry), b), LAMBDA step :
             [q |-> << step.q >>, r |-> step.r])
    ELSE LET mid == (from + to + 1) \div 2
         IN  With(BigDivRange(a, b, from, mid, carry), LAMBDA upper :
             With(BigDivRange(a, b, mid - 1, to, upper.r), LAMBDA lower :
                 [q |-> upper.q \o lower.q, r |-> lower.r]))

\* Quotient q and remainder r of a by b # 0
BigDivMod(left, right) ==
    With2(left, right, LAMBDA a, b :
        IF Len(a) = 0 THEN [q |-> << >>, r |-> << >>]
        ELSE With(BigDivRange(a, b, Len(a), 1, << >>), LAMBDA result :
                 [q |-> BigTrim([i \in 1..Len(a) |->
                                    result.q[Len(a) + 1 - i]]),
                  r |-> result.r]))

NaN == [nan |-> TRUE, inf |-> 0, neg |-> FALSE, mant |-> << >>, exp |-> 0]

\* Infinity (sign 1) and -Infinity (sign -1)
Infinite(sign) ==
    [nan |-> FALSE, inf |-> sign, neg |-> sign < 0, mant |-> << >>, exp |-> 0]

\* +0 and -0
Zero(neg) ==
    [nan |-> FALSE, inf |-> 0, neg |-> neg, mant |-> << >>, exp |-> 0]

IsFinite(number) == With(number, LAMBDA a : ~a.nan /\ a.inf = 0)

IsZero(number) ==
    With(number, LAMBDA a : ~a.nan /\ a.inf = 0 /\ Len(a.mant) = 0)

\* The double nearest to (-1)^neg * big * 2^exp, ties to even; Infinity
\* from 2^1024 on, and steps of 2^-1074 near zero
RoundToDouble(neg, digits, exp) ==
    With(digits, LAMBDA big :
        IF Len(big) = 0 THEN Zero(neg)
        ELSE LET excess == BitLength(big) - MantissaBits
                 below == MinExponent - exp
                 cut == IF excess > below
                        THEN (IF excess > 0 THEN excess ELSE 0)
                        ELSE (IF below > 0 THEN below ELSE 0)
             IN  With2(BigShiftRight(big, cut),
                       IF cut > 0 THEN BigShiftRight(big, cut - 1) ELSE << >>,
                       LAMBDA kept, half :
                 LET up == /\ cut > 0
                           /\ Len(half) > 0 /\ half[1] % 2 = 1
                           /\ \/ BigShiftLeft(half, cut - 1) # big
                              \/ (Len(kept) > 0 /\ kept[1] % 2 = 1)
                 IN  With(IF up THEN BigAdd(kept, << 1 >>) ELSE kept,
                          LAMBDA mant :
                     IF Len(mant) = 0 THEN Zero(neg)
                     ELSE IF BitLength(mant) + exp + cut > OverflowBits
                     THEN Infinite(IF neg THEN -1 ELSE 1)
                     ELSE LET zeros == TrailingZeros(mant)
                          IN  [nan |-> FALSE, inf |-> 0, neg |-> neg,
                               mant |-> BigShiftRight(mant, zeros),
                               exp |-> exp + cut + zeros])))

\* The number with the whole value k
Num(k) == RoundToDouble(k < 0, BigOf(IF k < 0 THEN -k ELSE k), 0)

\* -a and Math.abs(a)
Negate(number) ==
    With(number, LAMBDA a :
        IF a.nan THEN a ELSE [a EXCEPT !.neg = ~a.neg, !.inf = -a.inf])

AbsNum(number) ==
    With(number, LAMBDA a : IF a.nan \/ ~a.neg THEN a ELSE Negate(a))

\* -1, 0 or 1 as |a| is less than, equal to or greater than |b|, for
\* finite a and b
CompareMagnitude(a, b) ==
    IF Len(a.mant) = 0 \/ Len(b.mant) = 0
    THEN (IF Len(a.mant) > 0 THEN 1 ELSE IF Len(b.mant) > 0 THEN -1 ELSE 0)
    ELSE LET aTop == BitLength(a.mant) + a.exp
             bTop == BitLength(b.mant) + b.exp
             low == IF a.exp < b.exp THEN a.exp ELSE b.exp
         IN  IF aTop # bTop THEN (IF aTop < bTop THEN -1 ELSE 1)
             ELSE BigCompare(BigShiftLeft(a.mant, a.exp - low),
                             BigShiftLeft(b.mant, b.exp - low))

\* a < b of JavaScript: false when either side is NaN; -0 equals +0
Less(left, right) ==
    With2(left, right, LAMBDA a, b :
        /\ ~a.nan /\ ~b.nan
        /\ IF a.inf # 0 \/ b.inf # 0
           THEN a.inf < b.inf
           ELSE IF IsZero(a) /\ IsZero(b) THEN FALSE
           ELSE IF a.neg # b.neg THEN a.neg
           ELSE IF a.neg THEN CompareMagnitude(a, b) > 0
           ELSE CompareMagnitude(a, b) < 0)

\* a == b of JavaScript
NumEquals(left, right) ==
    With2(left, right, LAMBDA a, b :
        ~a.nan /\ ~b.nan /\ (a = b \/ (IsZero(a) /\ IsZero(b))))

\* a <= b of JavaScript: false when either side is NaN
Leq(left, right) ==
    With2(left, right, LAMBDA a, b : Less(a, b) \/ NumEquals(a, b))

\* a + b of JavaScript
Plus(left, right) ==
    With2(left, right, LAMBDA a, b :
        IF a.nan \/ b.nan THEN NaN
        ELSE IF a.inf # 0 /\ b.inf # 0
        THEN (IF a.inf = b.inf THEN a ELSE NaN)
        ELSE IF a.inf # 0 THEN a
        ELSE IF b.inf # 0 THEN b
        ELSE LET low == IF a.exp < b.exp THEN a.exp ELSE b.exp
             IN  With2(BigShiftLeft(a.mant, a.exp - low),
                       BigShiftLeft(b.mant, b.exp - low), LAMBDA x, y :
                 LET order == BigCompare(x, y)
                 IN  IF a.neg = b.neg
                     THEN RoundToDouble(a.neg, BigAdd(x, y), low)
                     ELSE IF order = 0 THEN Zero(FALSE)
                     ELSE IF order > 0
                     THEN RoundToDouble(a.neg, BigSub(x, y), low)
                     ELSE RoundToDouble(b.neg, BigSub(y, x), low)))

\* a - b of JavaScript
Minus(a, b) == Plus(a, Negate(b))

\* a * b of JavaScript
Times(left, right) ==
    With2(left, right, LAMBDA a, b :
        IF a.nan \/ b.nan THEN NaN
        ELSE IF a.inf # 0 \/ b.inf # 0
        THEN (IF IsZero(a) \/ IsZero(b) THEN NaN
              ELSE Infinite(IF a.neg = b.neg THEN 1 ELSE -1))
        ELSE RoundToDouble(a.neg # b.neg, BigTimes(a.mant, b.mant),
                           a.exp + b.exp))

\* a / b of JavaScript
DividedBy(left, right) ==
    With2(left, right, LAMBDA a, b :
        IF a.nan \/ b.nan THEN NaN
        ELSE IF a.inf # 0
        THEN (IF b.inf # 0 THEN NaN
              ELSE Infinite(IF a.neg = b.neg THEN 1 ELSE -1))
        ELSE IF b.inf # 0 THEN Zero(a.neg # b.neg)
        ELSE IF IsZero(b)
        THEN (IF IsZero(a) THEN NaN
              ELSE Infinite(IF a.neg = b.neg THEN 1 ELSE -1))
        ELSE LET shift == 64 + BitLength(b.mant)
             IN  With(BigDivMod(BigShiftLeft(a.mant, shift), b.mant),
                      LAMBDA division :
                 LET sticky == IF Len(division.r) = 0 THEN << >>
                               ELSE << 1 >>
                 IN  RoundToDouble(a.neg # b.neg,
                                   BigAdd(BigTimesSmall(division.q, 2),
                                          sticky),
                                   a.exp - b.exp - shift - 1)))

\* a % b of JavaScript: the remainder has the sign of a
Remainder(left, right) ==
    With2(left, right, LAMBDA a, b :
        IF a.nan \/ b.nan \/ a.inf # 0 \/ IsZero(b) THEN NaN
        ELSE IF b.inf # 0 \/ IsZero(a) THEN a
        ELSE IF CompareMagnitude(a, b) < 0 THEN a
        ELSE LET low == IF a.exp < b.exp THEN a.exp ELSE b.exp
                 x == BigShiftLeft(a.mant, a.exp - low)
                 y == BigShiftLeft(b.mant, b.exp - low)
             IN  RoundToDouble(a.neg, BigDivMod(x, y).r, low))

\* Math.floor(a)
Floor(number) ==
    With(number, LAMBDA a :
        IF ~IsFinite(a) \/ a.exp >= 0 THEN a
        ELSE LET whole == BigShiftRight(a.mant, -a.exp)
             IN  IF a.neg
                 THEN RoundToDouble(TRUE, BigAdd(whole, << 1 >>), 0)
                 ELSE RoundToDouble(FALSE, whole, 0))

\* The whole part of a finite number, the fraction cut off
Truncate(number) ==
    With(number, LAMBDA a :
        IF a.exp >= 0 THEN a
        ELSE RoundToDouble(a.neg, BigShiftRight(a.mant, -a.exp), 0))

\* The value of a whole number that lies within the integers of the
\* checker
WholeValue(number) ==
    With(number, LAMBDA a :
        LET size == IntOf(BigShiftLeft(a.mant, a.exp))
        IN  IF a.neg THEN -size ELSE size)

Digits == <<"0","1","2","3","4","5","6","7","8","9">>

IsDigit(c) == \E i \in 1..10 : Digits[i] = c

DigitVal(c) == (CHOOSE i \in 1..10 : Digits[i] = c) - 1

\* The value of the longest prefix of decimal digits of s, continuing acc
RECURSIVE ParseDigits(_, _)
ParseDigits(s, acc) ==
    IF Len(s) > 0 /\ IsDigit(Head(s))
    THEN ParseDigits(Tail(s), acc * 10 + DigitVal(Head(s)))
    ELSE acc

\* The longest prefix of decimal digits of s
TakeDigits(s) ==
    IF \A i \in 1..Len(s) : IsDigit(s[i]) THEN s
    ELSE SubSeq(s, 1, (CHOOSE i \in 1..Len(s) :
                           /\ ~IsDigit(s[i])
                           /\ \A j \in 1..(i - 1) : IsDigit(s[j])) - 1)

\* s without its first k code units
Drop(s, k) == SubSeq(s, k + 1, Len(s))

\* A hexadecimal digit: a decimal digit or one of the letters a to f, in
\* either case
IsHexDigit(c) ==
    IsDigit(c) \/ \E i \in 1..6 : LowerChar(c) = << LowerLetters[i] >>

HexVal(c) ==
    IF IsDigit(c) THEN DigitVal(c)
    ELSE 9 + (CHOOSE i \in 1..6 : LowerChar(c) = << LowerLetters[i] >>)

\* The value of the longest prefix of hexadecimal digits of s, continuing
\* acc
RECURSIVE ParseHexDigits(_, _)
ParseHexDigits(s, acc) ==
    IF Len(s) > 0 /\ IsHexDigit(Head(s))
    THEN ParseHexDigits(Tail(s), acc * 16 + HexVal(Head(s)))
    ELSE acc

\* The longest prefix of hexadecimal digits of s
TakeHexDigits(s) ==
    IF \A i \in 1..Len(s) : IsHexDigit(s[i]) THEN s
    ELSE SubSeq(s, 1, (CHOOSE i \in 1..Len(s) :
                           /\ ~IsHexDigit(s[i])
                           /\ \A j \in 1..(i - 1) : IsHexDigit(s[j])) - 1)

\* 10^k, by squaring
RECURSIVE BigPow10(_)
BigPow10(k) ==
    IF k <= 4 THEN BigOf(10 ^ k)
    ELSE LET half == BigPow10(k \div 2)
             square == BigTimes(half, half)
         IN  IF k % 2 = 0 THEN square ELSE BigTimesSmall(square, 10)

\* The natural number that a sequence of decimal digits writes, by its
\* halves
RECURSIVE BigOfDigits(_)
BigOfDigits(s) ==
    IF Len(s) <= 4 THEN BigOf(ParseDigits(s, 0))
    ELSE LET back == Len(s) \div 2
         IN  BigAdd(BigTimes(BigOfDigits(SubSeq(s, 1, Len(s) - back)),
                             BigPow10(back)),
                    BigOfDigits(SubSeq(s, Len(s) - back + 1, Len(s))))

\* The same for hexadecimal digits
RECURSIVE BigOfHexDigits(_)
BigOfHexDigits(s) ==
    IF Len(s) <= 3 THEN BigOf(ParseHexDigits(s, 0))
    ELSE LET back == Len(s) \div 2
         IN  BigAdd(BigShiftLeft(BigOfHexDigits(SubSeq(s, 1, Len(s) - back)),
                                 4 * back),
                    BigOfHexDigits(SubSeq(s, Len(s) - back + 1, Len(s))))

\* Decimal exponents from which on every value is Infinity or rounds to 0
ExponentCap == 400

\* The value of an exponent's digits, which stops growing beyond the
\* limit.  parseFloat passes as limit the cap plus 4 for every digit of
\* the mantissa: an exponent beyond it leaves the scale of a nonzero
\* mantissa above the cap (Infinity), or below minus the cap minus the bit
\* length of the mantissa (0), as the exponent itself would
RECURSIVE ExponentValue(_, _, _)
ExponentValue(s, acc, limit) ==
    IF Len(s) = 0 THEN acc
    ELSE ExponentValue(Tail(s),
                       IF acc > limit THEN acc
                       ELSE acc * 10 + DigitVal(Head(s)),
                       limit)

\* The double nearest to (-1)^neg * big * 10^scale
DecimalToDouble(neg, big, scale) ==
    IF Len(big) = 0 THEN Zero(neg)
    ELSE IF scale >= 0
    THEN (IF scale > ExponentCap THEN Infinite(IF neg THEN -1 ELSE 1)
          ELSE RoundToDouble(neg, BigTimes(BigPow10(scale), big), 0))
    ELSE IF -scale > ExponentCap + BitLength(big)
    THEN Zero(neg)
    ELSE LET power == BigPow10(-scale)
             room == 66 + BitLength(power) - BitLength(big)
             shift == IF room > 0 THEN room ELSE 0
             division == BigDivMod(BigShiftLeft(big, shift), power)
             sticky == IF Len(division.r) = 0 THEN << >> ELSE << 1 >>
         IN  RoundToDouble(neg,
                           BigAdd(BigTimesSmall(division.q, 2), sticky),
                           -shift - 1)

\* parseInt(text) without a radix: leading white space is skipped, a sign
\* is read, a prefix 0x or 0X selects base 16, and the longest prefix of
\* digits of the base is the value; NaN when there is no digit
parseInt(text) ==
    LET s == trimStart(text)
        signed == Len(s) > 0 /\ Head(s) \in {"+", "-"}
        neg == Len(s) > 0 /\ Head(s) = "-"
        body == IF signed THEN Tail(s) ELSE s
        hex == Len(body) >= 2 /\ body[1] = "0" /\ body[2] \in {"x", "X"}
    IN  IF hex
        THEN (IF Len(body) >= 3 /\ IsHexDigit(body[3])
              THEN RoundToDouble(neg,
                                 BigOfHexDigits(TakeHexDigits(Drop(body, 2))),
                                 0)
              ELSE NaN)
        ELSE IF Len(body) = 0 \/ ~IsDigit(Head(body))
        THEN NaN
        ELSE RoundToDouble(neg, BigOfDigits(TakeDigits(body)), 0)

\* parseFloat(text): leading white space is skipped and the longest prefix
\* that is a decimal literal is the value: a sign, then Infinity, or digits
\* with an optional fraction and an optional exponent; NaN when there is
\* no such prefix
parseFloat(text) ==
    LET s == trimStart(text)
        signed == Len(s) > 0 /\ Head(s) \in {"+", "-"}
        neg == Len(s) > 0 /\ Head(s) = "-"
        body == IF signed THEN Tail(s) ELSE s
        intDigits == TakeDigits(body)
        afterInt == Drop(body, Len(intDigits))
        hasDot == Len(afterInt) > 0 /\ Head(afterInt) = "."
        fracDigits == IF hasDot THEN TakeDigits(Tail(afterInt)) ELSE << >>
        afterFrac == IF hasDot THEN Drop(afterInt, 1 + Len(fracDigits))
                     ELSE afterInt
        hasE == Len(afterFrac) > 0 /\ Head(afterFrac) \in {"e", "E"}
        afterE == IF hasE THEN Tail(afterFrac) ELSE << >>
        expSigned == Len(afterE) > 0 /\ Head(afterE) \in {"+", "-"}
        expNeg == Len(afterE) > 0 /\ Head(afterE) = "-"
        expDigits == TakeDigits(IF expSigned THEN Tail(afterE) ELSE afterE)
        size == ExponentValue(expDigits, 0,
                              ExponentCap
                              + 4 * (Len(intDigits) + Len(fracDigits)))
        exponent == IF expNeg THEN -size ELSE size
    IN  IF startsWith(body, <<"I","n","f","i","n","i","t","y">>)
        THEN Infinite(IF neg THEN -1 ELSE 1)
        ELSE IF Len(intDigits) = 0 /\ Len(fracDigits) = 0
        THEN NaN
        ELSE DecimalToDouble(neg,
                             BigOfDigits(intDigits \o fracDigits),
                             exponent - Len(fracDigits))

\* ------------------------------------------------------------------------
\* The platform and DateTimeConverter (dateTimeConverter.ts): the zone
\* registry, the zone rules, the formatter and the parser
\* ------------------------------------------------------------------------

\* DateTimeConverter.getAllTimezones(): the identifiers that the time-zone
\* database of the platform recognizes, here those that occur in this
\* model, in the order of the database
getAllTimezones ==
    << Zone.America_Chicago, Zone.America_Denver, Zone.America_Los_Angeles,
       Zone.America_New_York, Zone.Asia_Calcutta, Zone.Asia_Hong_Kong,
       Zone.Asia_Kolkata, Zone.Asia_Singapore, Zone.Asia_Tokyo,
       Zone.Australia_Adelaide, Zone.Australia_Perth, Zone.Australia_Sydney,
       Zone.Europe_London, Zone.Europe_Paris, Zone.UTC >>

\* Milliseconds in a minute, as used in main.ts line 527 (60 * 1000), and
\* in a day
MsPerMinute == 60 * 1000

MsPerDay == 1440 * MsPerMinute

\* A Date is kept as its time value: the whole milliseconds since 1970, or
\* NaN for an Invalid Date.  The time value of the start of day 0,
\* 2024-03-10T00:00:00Z, and the largest time value there is, 8.64e15
EpochOfDayZero == Times(Num(1710028800), Num(1000))

MaxTimeValue == Times(Num(86400000), Num(100000000))

\* new Date(value): the number without its fraction, and Invalid Date for
\* a number that is not finite or lies beyond the largest time value
NewDate(value) ==
    With(value, LAMBDA v :
        IF ~IsFinite(v) \/ Less(MaxTimeValue, AbsNum(v)) THEN NaN
        ELSE Plus(Truncate(v), Zero(FALSE)))

\* The Date of the instant ms milliseconds after the start of day 0
DateOf(ms) == Plus(EpochOfDayZero, Num(ms))

\* The day of a valid Date, counted from day 0, and the millisecond of
\* that day
DayAndMs(date) ==
    With(Minus(date, EpochOfDayZero), LAMBDA sinceDayZero :
    With(Remainder(sinceDayZero, Num(MsPerDay)), LAMBDA part :
    With2(WholeValue(DividedBy(Minus(sinceDayZero, part), Num(MsPerDay))),
          WholeValue(part), LAMBDA days, ms :
        IF ms < 0 THEN [day |-> days - 1, ms |-> ms + MsPerDay]
        ELSE [day |-> days, ms |-> ms])))

\* The instant, in milliseconds from the start of day 0, at which the zone
\* rules are asked for a Date: further than 20 days from day 0 the rules
\* stay what they are there
RuleInstant(at) ==
    IF at.day > 20 THEN 20 * MsPerDay
    ELSE IF at.day < -20 THEN -20 * MsPerDay
    ELSE at.day * MsPerDay + at.ms

\* The UTC offset, in minutes, that zone tz observes at the instant t
\* milliseconds after the start of day 0
UtcOffsetMin(tz, t) ==
    CASE tz = Zone.America_New_York    -> IF t < 7 * 60 * MsPerMinute THEN -300 ELSE -240
      [] tz = Zone.America_Chicago     -> IF t < 8 * 60 * MsPerMinute THEN -360 ELSE -300
      [] tz = Zone.America_Denver      -> IF t < 9 * 60 * MsPerMinute THEN -420 ELSE -360
      [] tz = Zone.America_Los_Angeles -> IF t < 10 * 60 * MsPerMinute THEN -480 ELSE -420
      [] tz = Zone.Europe_Paris        -> 60
      [] tz = Zone.Asia_Kolkata        -> 330
      [] tz = Zone.Asia_Calcutta       -> 330
      [] tz = Zone.Asia_Singapore      -> 480
      [] tz = Zone.Asia_Hong_Kong      -> 480
      [] tz = Zone.Australia_Perth     -> 480
      [] tz = Zone.Asia_Tokyo          -> 540
      [] tz = Zone.Australia_Adelaide  -> 630
      [] tz = Zone.Australia_Sydney    -> 660
      [] OTHER                    -> 0

\* DateTimeConverter.formatDate(date, tz, format): the wall clock of a
\* valid Date in zone tz, as day number, hour and minute
formatDate(date, tz, format) ==
    With(DayAndMs(date), LAMBDA at :
        LET local == (at.ms \div MsPerMinute)
                     + UtcOffsetMin(tz, RuleInstant(at))
        IN  [day    |-> at.day + (local \div 1440),
             hour   |-> (local % 1440) \div 60,
             minute |-> local % 60])

\* The instant at which zone tz shows wall-clock minute wall of day 0
ResolveLocal(wall, tz) ==
    LET early == (wall + 720) * MsPerMinute
        late  == (wall - 840) * MsPerMinute
        cands == {(wall - o) * MsPerMinute :
                     o \in {UtcOffsetMin(tz, late), UtcOffsetMin(tz, early)}}
        valid == {t \in cands : (t \div MsPerMinute) + UtcOffsetMin(tz, t) = wall}
    IN  IF valid # {}
        THEN CHOOSE t \in valid : \A u \in valid : t <= u
        ELSE (wall - UtcOffsetMin(tz, late)) * MsPerMinute

\* A clock-time text "H:MM" or "HH:MM"
IsClockText(s) ==
    \E k \in 1..2 :
        /\ Len(s) = k + 3
        /\ \A i \in 1..k : IsDigit(s[i])
        /\ s[k + 1] = ":"
        /\ IsDigit(s[k + 2]) /\ IsDigit(s[k + 3])

\* What the parser returns for a text it does not understand: a result
\* with an error text, or a result with neither error nor date
ParserFailures ==
    { [error |-> "Could not parse date", hasDate |-> FALSE,
       parsedDate |-> NaN],
      [error |-> "", hasDate |-> FALSE, parsedDate |-> NaN] }

\* DateTimeConverter.parseAndConvert(text, referenceZone), as the set of
\* the results it may return: a clock time is read as that time of day 0
\* in the reference zone; other text is not understood
parseAndConvert(text, referenceZone) ==
    IF IsClockText(text)
    THEN LET k == Len(text) - 3
             wall == ParseDigits(SubSeq(text, 1, k), 0) * 60
                     + ParseDigits(SubSeq(text, k + 2, k + 3), 0)
         IN  { [error |-> "", hasDate |-> TRUE,
                parsedDate |-> DateOf(ResolveLocal(wall, referenceZone))] }
    ELSE ParserFailures

\* App.getBrowserTimezone(): the zone the browser reports, or the 'UTC'
\* fallback of lines 63 and 65
BrowserTimezones == {Zone.America_New_York, Zone.UTC}

\* ------------------------------------------------------------------------
\* localStorage item 'timezones'
\* ------------------------------------------------------------------------
\* The item is kept as the value its text encodes.  A list written by the
\* handlers of this page is that list.  Texts of another origin are one of
\* the values below, each a list of one entry that is no string of code
\* units, so that no selection equals it.
NoItem == [present |-> FALSE, json |-> <<>>]

\* The empty text '', which line 135 takes as no item
JEmptyText == << <<"#empty text">> >>

\* A text that is not JSON, on which JSON.parse throws
JMalformed == << <<"#malformed">> >>

\* The JSON text of a value v with !v or v.length === 0 that is no array:
\* null, false, 0, "" or an object with length 0
JFalsy == << <<"#falsy">> >>

\* The JSON text of a truthy value that is no array and has neither a
\* length nor a method includes: true, a number other than 0, an object
\* without a property length
JNonArray == << <<"#nonarray">> >>

\* The JSON text of a string of one or more code units
JString(text) == << << "#string" >> \o text >>

\* The JSON text of an object whose property length is the number k, for
\* k in 1..9
JLength(k) == << << "#length", Digits[k + 1] >> >>

IsString(value) ==
    Len(value) = 1 /\ Len(value[1]) >= 1 /\ value[1][1] = "#string"

IsLengthObject(value) ==
    Len(value) = 1 /\ Len(value[1]) >= 1 /\ value[1][1] = "#length"

\* Array.isArray(value)
IsArray(value) ==
    value \notin {JFalsy, JNonArray}
    /\ ~IsString(value) /\ ~IsLengthObject(value)

\* value.length is a number, and that number
HasLength(value) == value \notin {JFalsy, JNonArray}

LengthOf(value) ==
    IF IsString(value) THEN Len(value[1]) - 1
    ELSE IF IsLengthObject(value) THEN DigitVal(value[1][2])
    ELSE Len(value)



\* JSON.stringify(list): the stored text, kept as the list it encodes
JSONstringify(list) == [present |-> TRUE, json |-> list]

\* JSON.parse(text): the value, or thrown when the text is not JSON
JSONparse(item) ==
    IF item.json \in {JMalformed, JEmptyText}
    THEN [thrown |-> TRUE, value |-> << >>]
    ELSE [thrown |-> FALSE, value |-> item.json]

\* ------------------------------------------------------------------------
\* Bounds of the model
\* ------------------------------------------------------------------------
\* Offsets recorded of a loop that cannot end (a step that does not
\* increase m, or an end at Infinity): such a loop is followed further
\* without recording.  A loop that can end records every offset
MaxRows == 64

\* ------------------------------------------------------------------------
\* State
\* ------------------------------------------------------------------------
VARIABLES
    homeTimezone,    \* App.homeTimezone
    browserTimezone, \* the zone of the machine, as getBrowserTimezone and
                     \* Date.getDate() see it now
    allZones,        \* DateTimeConverter.getAllTimezones()
    timezones,       \* App.timezones
    storage,         \* localStorage item 'timezones'
    lastParsedDate,  \* App.lastParsedDate: [defined, ms]
    pc,              \* "idle", "loop" inside renderTable's for loop, or
                     \* "crashed" when the constructor threw
    window,          \* startHours, endHours, incrementMin of renderTable
    m,               \* loop variable m of renderTable
    offsets,         \* local array offsets of renderTable
    dropped,         \* parity of the pushes not recorded (see MaxRows)
    header,          \* zones of the table's header row
    table,           \* rows of the table: offset, label, cells
    errorMessage,    \* message of showError, "" when none is shown
    alertMessage,    \* alert of the handler that ran last
    parserCall,      \* arguments of the last parseAndConvert call
    lastOp,          \* the handler that ran last, and how it ended
    timeline         \* entries of the element #timeline: zone, day note

vars == << homeTimezone, browserTimezone, allZones, timezones, storage, lastParsedDate, pc,
           window, m, offsets, dropped, header, table,
           errorMessage, alertMessage, parserCall, lastOp, timeline >>

envVars == << homeTimezone, browserTimezone, allZones >>

loopVars == << window, m, offsets, dropped >>

resultVars ==
    << lastParsedDate, header, table, errorMessage, parserCall, timeline >>

NoAlert == [kind |-> "none", suggestions |-> <<>>]

\* The element #timeline as resetResultsContainer creates it: without
\* entries.  No handler of the page puts entries into it (renderTimeline
\* has no caller)
NoTimeline == << >>

NoWindow == [startHours |-> NaN, endHours |-> NaN, incrementMin |-> NaN]

\* The handler, how it ended, and the text it was given (zone field)
Op(name, outcome, arg) == [op |-> name, outcome |-> outcome, arg |-> arg]

\* ------------------------------------------------------------------------
\* Zone selection: loadTimezones, removeTimezone, addTimezone, reset
\* ------------------------------------------------------------------------

\* Lines 134-137: the selection after the stored item was read; an empty
\* text is skipped, a text that is not JSON gives the empty list
RestoredTimezones(current, item) ==
    IF item.present /\ item.json # JEmptyText
    THEN (IF JSONparse(item).thrown THEN << >> ELSE JSONparse(item).value)
    ELSE current

\* !this.timezones || this.timezones.length === 0
IsEmptySelection(restored) == restored = JFalsy \/ Len(restored) = 0

\* loadTimezones that puts the default in without storing it
loadTimezonesUnsaved(current, item, browserZone) ==
    LET restored == RestoredTimezones(current, item)
    IN  IF IsEmptySelection(restored)
        THEN [timezones |-> << browserZone >>, storage |-> item]
        ELSE [timezones |-> restored, storage |-> item]

\* App.loadTimezones(): the selection and the stored item afterwards;
\* browserZone is what App.getBrowserTimezone() returns at line 139
loadTimezones(current, item, browserZone) ==
    LET restored == RestoredTimezones(current, item)
    IN  IF IsEmptySelection(restored)
        THEN [timezones |-> << browserZone >>,
              storage |-> JSONstringify(<< browserZone >>)]
        ELSE [timezones |-> restored, storage |-> item]

\* renderTimezoneList (line 147): this.timezones.forEach throws a
\* TypeError when the restored value is no array
RenderTimezoneListThrows(list) == ~IsArray(list)

\* The options of the autocomplete list (lines 100-102), one of which the
\* callback of line 105 puts into the zone field
AutocompleteOptions(all) ==
    {TZ_ABBREVIATIONS[i][1] : i \in 1..Len(TZ_ABBREVIATIONS)} \cup Range(all)

\* this.timezones.filter(t => t !== tz)
FilterOut(list, tz) == SelectSeq(list, LAMBDA t : t # tz)

\* TZ_ABBREVIATIONS[abbr] is truthy
HasAbbreviation(abbr) ==
    \E i \in 1..Len(TZ_ABBREVIATIONS) : TZ_ABBREVIATIONS[i][1] = abbr

\* TZ_ABBREVIATIONS[abbr]
AbbreviationValue(abbr) ==
    TZ_ABBREVIATIONS[CHOOSE i \in 1..Len(TZ_ABBREVIATIONS) :
                         TZ_ABBREVIATIONS[i][1] = abbr][2]

\* Object.values(TZ_ABBREVIATIONS)
AbbreviationValues ==
    {TZ_ABBREVIATIONS[i][2] : i \in 1..Len(TZ_ABBREVIATIONS)}

\* let tz = inputVal; if (TZ_ABBREVIATIONS[abbr]) tz = TZ_ABBREVIATIONS[abbr]
MapAbbreviation(inputVal) ==
    LET abbr == toUpperCase(inputVal)
    IN  IF HasAbbreviation(abbr) THEN AbbreviationValue(abbr) ELSE inputVal

\* Validation that accepts any text
IsValidZoneAnyText(tz, all) == Len(tz) > 0

\* validZones.has(tz)
IsValidZone(tz, all) == tz \in (Range(all) \cup AbbreviationValues)

\* Capacity check that lets one entry too many in
AtCapacityOffByOne(list) == Len(list) > MAX_TIMEZONES

\* this.timezones.length >= MAX_TIMEZONES
AtCapacity(list) == HasLength(list) /\ LengthOf(list) >= MAX_TIMEZONES

\* Presence check that looks at the first entry only
AlreadySelectedFirstOnly(list, tz) == Len(list) > 0 /\ list[1] = tz

\* this.timezones.includes(tz): an element of an array, a part of a string
AlreadySelected(list, tz) ==
    IF IsString(list) THEN includes(Tail(list[1]), tz) ELSE Contains(list, tz)

\* Lines 206-207 throw a TypeError: the restored value has no method
\* includes, or it is a string, which has no method push
SelectionThrows(list, tz) ==
    \/ list = JNonArray
    \/ IsLengthObject(list)
    \/ IsString(list) /\ ~AlreadySelected(list, tz)

\* ------------------------------------------------------------------------
\* Suggestions: findSimilarTimezones
\* ------------------------------------------------------------------------
\* .slice(0, 5) of findSimilarTimezones
SuggestionLimit == 5

\* suggestions.slice(0, 3) of addTimezone
ShownLimit == 3

\* tz.toLowerCase().includes(query)
Matches(tz, query) == includes(toLowerCase(tz), query)

\* Comparator without the preference for a leading match
CompareLengthOnly(a, b, query) == Len(a) - Len(b)

\* The comparator handed to sort: negative when a goes first
Compare(a, b, query) ==
    LET aStarts == startsWith(toLowerCase(a), query)
        bStarts == startsWith(toLowerCase(b), query)
    IN  IF aStarts /\ ~bStarts THEN -1
        ELSE IF ~aStarts /\ bStarts THEN 1
        ELSE Len(a) - Len(b)

\* One insertion of a stable sort: x goes before the first element that
\* the comparator puts after it
RECURSIVE InsertSorted(_, _, _)
InsertSorted(sorted, x, query) ==
    IF Len(sorted) = 0 THEN << x >>
    ELSE IF Compare(x, Head(sorted), query) < 0 THEN << x >> \o sorted
    ELSE << Head(sorted) >> \o InsertSorted(Tail(sorted), x, query)

\* Array.prototype.sort(comparator), which is stable
RECURSIVE SortBy(_, _)
SortBy(list, query) ==
    IF Len(list) = 0 THEN << >>
    ELSE InsertSorted(SortBy(SubSeq(list, 1, Len(list) - 1), query),
                      list[Len(list)], query)

\* App.findSimilarTimezones(input, timezones)
findSimilarTimezones(input, list) ==
    LET query == toLowerCase(input)
        found == SelectSeq(list, LAMBDA tz : Matches(tz, query))
    IN  slice0(SortBy(found, query), SuggestionLimit)

\* ------------------------------------------------------------------------
\* Handlers of the zone selection
\* ------------------------------------------------------------------------

\* The constructor of App on a page load: the home zone is read again and
\* the stored selection restored; when renderTimezoneList throws, the
\* constructor ends before bindEvents and no handler is bound
Restart ==
    /\ pc \in {"idle", "crashed"}
    /\ homeTimezone' = browserTimezone
    /\ LET loaded == loadTimezones(<< >>, storage, browserTimezone)
       IN  /\ timezones' = loaded.timezones
           /\ storage' = loaded.storage
           /\ pc' = IF RenderTimezoneListThrows(loaded.timezones)
                    THEN "crashed" ELSE "idle"
    /\ lastParsedDate' = [defined |-> FALSE, ms |-> NaN]
    /\ header' = << >>
    /\ table' = << >>
    /\ errorMessage' = ""
    /\ alertMessage' = NoAlert
    /\ parserCall' = [called |-> FALSE, text |-> << >>, zone |-> << >>]
    /\ timeline' = NoTimeline
    /\ lastOp' = Op("construct", "loaded", << >>)
    /\ UNCHANGED << browserTimezone, allZones, loopVars >>

\* The zone of the machine changes while the page is open
ChangeBrowserTimezone(tz) ==
    /\ pc \in {"idle", "crashed"}
    /\ tz # browserTimezone
    /\ browserTimezone' = tz
    /\ UNCHANGED << homeTimezone, allZones, timezones, storage, pc, loopVars,
                    resultVars, alertMessage, lastOp >>

\* removeTimezone of the tag of zone tz (click, Enter or space on the tag)
removeTimezone(tz) ==
    /\ pc = "idle"
    /\ Contains(timezones, tz)
    /\ timezones' = FilterOut(timezones, tz)
    /\ storage' = JSONstringify(timezones')
    /\ alertMessage' = NoAlert
    /\ lastOp' = Op("remove", "removed", << >>)
    /\ UNCHANGED << envVars, pc, loopVars, resultVars >>

\* App.addTimezone() with the text value in the zone input field: from the
\* key handler of line 124, and from the callback of the autocomplete list,
\* which is bound before the constructor can throw
addTimezone(value) ==
    /\ \/ pc = "idle"
       \/ pc = "crashed" /\ value \in AutocompleteOptions(allZones)
    /\ LET inputVal == trim(value)
           tz == MapAbbreviation(inputVal)
       IN  IF Len(inputVal) = 0
           THEN /\ alertMessage' = NoAlert
                /\ lastOp' = Op("add", "empty", value)
                /\ UNCHANGED << timezones, storage >>
           ELSE IF AtCapacity(timezones)
           THEN /\ alertMessage' = [kind |-> "maximum", suggestions |-> << >>]
                /\ lastOp' = Op("add", "full", value)
                /\ UNCHANGED << timezones, storage >>
           ELSE IF ~IsValidZone(tz, allZones)
           THEN /\ alertMessage' =
                      [kind |-> "invalid",
                       suggestions |->
                           slice0(findSimilarTimezones(inputVal, allZones),
                                  ShownLimit)]
                /\ lastOp' = Op("add", "invalid", value)
                /\ UNCHANGED << timezones, storage >>
           ELSE IF SelectionThrows(timezones, tz)
           THEN /\ alertMessage' = NoAlert
                /\ lastOp' = Op("add", "threw", value)
                /\ UNCHANGED << timezones, storage >>
           ELSE IF ~AlreadySelected(timezones, tz)
           THEN /\ timezones' = Append(timezones, tz)
                /\ storage' = JSONstringify(timezones')
                /\ alertMessage' = NoAlert
                /\ lastOp' = Op("add", "added", value)
           ELSE /\ alertMessage' = NoAlert
                /\ lastOp' = Op("add", "present", value)
                /\ UNCHANGED << timezones, storage >>
    /\ UNCHANGED << envVars, pc, loopVars, resultVars >>

\* App.resetTimezones(): the stored selection is dropped and the default
\* loaded again (the theme item and class, also reset there, are no part
\* of this model)
resetTimezones ==
    /\ pc = "idle"
    /\ LET loaded == loadTimezones(<< >>, NoItem, browserTimezone)
       IN  /\ timezones' = loaded.timezones
           /\ storage' = loaded.storage
    /\ alertMessage' = NoAlert
    /\ lastOp' = Op("reset", "reset", << >>)
    /\ UNCHANGED << envVars, pc, loopVars, resultVars >>

\* ------------------------------------------------------------------------
\* Conversion: handleConvert, displayResult, renderTable
\* ------------------------------------------------------------------------

\* Reference zone taken from the end of the selection
ReferenceZoneLast(list) == list[Len(list)]

\* this.timezones[0], the zone handed to the parser
ReferenceZone(list) == list[1]

\* new Date(parsedDate.getTime() + (offsetMin * 60 * 1000))
OffsetDate(parsedDate, offsetMin) ==
    NewDate(Plus(parsedDate, Times(Times(offsetMin, Num(60)), Num(1000))))

\* The cell of an Invalid Date
InvalidDateCell == [valid |-> FALSE, day |-> 0, hour |-> 0, minute |-> 0]

\* The cell that shows a wall clock
ClockCell(clock) ==
    With(clock, LAMBDA c :
        [valid |-> TRUE, day |-> c.day, hour |-> c.hour,
         minute |-> c.minute])

\* Cell that shifts the wall clock of the resolved instant by the row
\* offset, with the UTC offset in force at the resolved instant
CellConstantOffset(parsedDate, offsetMin, tz) ==
    With(OffsetDate(parsedDate, offsetMin), LAMBDA offsetDate :
        IF offsetDate.nan THEN InvalidDateCell
        ELSE With2(DayAndMs(offsetDate), DayAndMs(parsedDate),
                   LAMBDA at, resolved :
                 LET local == (at.ms \div MsPerMinute)
                              + UtcOffsetMin(tz, RuleInstant(resolved))
                 IN  [valid  |-> TRUE,
                      day    |-> at.day + (local \div 1440),
                      hour   |-> (local % 1440) \div 60,
                      minute |-> local % 60]))

\* One data cell of renderTable; the formatter shows an Invalid Date as
\* such
Cell(parsedDate, offsetMin, tz) ==
    With(OffsetDate(parsedDate, offsetMin), LAMBDA offsetDate :
        IF offsetDate.nan THEN InvalidDateCell
        ELSE ClockCell(formatDate(offsetDate, tz, "short")))

\* The offset label of a row: sign, whole hours Math.floor(absMin / 60),
\* remaining minutes absMin % 60
OffsetLabel(offsetMin) ==
    With(AbsNum(offsetMin), LAMBDA absMin :
        [sign |-> IF Leq(Num(0), offsetMin) THEN "+" ELSE "-",
         h    |-> Floor(DividedBy(absMin, Num(60))),
         mm   |-> Remainder(absMin, Num(60))])

\* One row of the table body
Row(parsedDate, offsetMin, list) ==
    [offsetMin |-> offsetMin,
     label     |-> OffsetLabel(offsetMin),
     cells     |-> [j \in 1..Len(list) |-> Cell(parsedDate, offsetMin, list[j])]]



\* The loop condition m <= endMin
LoopCondition(cur, endMin) == Leq(cur, endMin)

\* Loop increment that starts over from a multiple of the step
NextMOnGrid(cur, incrementMin) ==
    IF ~IsFinite(cur) \/ ~IsFinite(incrementMin) \/ IsZero(incrementMin)
    THEN Plus(cur, incrementMin)
    ELSE Times(Plus(Floor(DividedBy(cur, incrementMin)), Num(1)),
               incrementMin)

\* The loop increment m += incrementMin
NextM(cur, incrementMin) == Plus(cur, incrementMin)

\* startHours * 60 and endHours * 60
StartMin(w) == Times(w.startHours, Num(60))

EndMin(w) == Times(w.endHours, Num(60))

\* App.handleConvert() up to the for loop of renderTable, with the text of
\* the date field and of the three window fields
handleConvert(text, startText, endText, incrementText) ==
    /\ pc = "idle"
    /\ alertMessage' = NoAlert
    /\ timeline' = NoTimeline
    /\ LET datetimeText == trim(text)
       IN  IF Len(datetimeText) = 0
           THEN /\ errorMessage' = "Please enter a date/time string"
                /\ header' = << >>
                /\ table' = << >>
                /\ lastOp' = Op("convert", "empty", << >>)
                /\ UNCHANGED << lastParsedDate, parserCall, pc, loopVars >>
           ELSE IF Len(timezones) = 0
           THEN /\ errorMessage' = "Please add at least one timezone"
                /\ header' = << >>
                /\ table' = << >>
                /\ lastOp' = Op("convert", "nozones", << >>)
                /\ UNCHANGED << lastParsedDate, parserCall, pc, loopVars >>
           ELSE \E parseResult \in
                       parseAndConvert(datetimeText, ReferenceZone(timezones)) :
                LET zone == ReferenceZone(timezones)
                IN  /\ parserCall' = [called |-> TRUE, text |-> datetimeText,
                                      zone |-> zone]
                    /\ IF parseResult.error # "" \/ ~parseResult.hasDate
                       THEN /\ errorMessage' =
                                  (IF parseResult.error # ""
                                   THEN parseResult.error
                                   ELSE "Error parsing date")
                            /\ header' = << >>
                            /\ table' = << >>
                            /\ lastOp' = Op("convert", "unparseable", << >>)
                            /\ UNCHANGED << lastParsedDate, pc, loopVars >>
                       ELSE /\ lastParsedDate' =
                                  [defined |-> TRUE, ms |-> parseResult.parsedDate]
                            /\ errorMessage' = ""
                            /\ header' = timezones
                            /\ table' = << >>
                            /\ window' = [startHours   |-> parseFloat(startText),
                                          endHours     |-> parseFloat(endText),
                                          incrementMin |-> parseInt(incrementText)]
                            /\ m' = StartMin(window')
                            /\ offsets' = << >>
                            /\ dropped' = 0
                            /\ pc' = "loop"
                            /\ lastOp' = Op("convert", "rendering", << >>)
    /\ UNCHANGED << envVars, timezones, storage >>

\* One iteration of the for loop of renderTable: offsets.push(m) and
\* m += incrementMin.  An iteration that brings the end of the loop
\* nearer (m becomes NaN, or m increases towards a finite end) is always
\* recorded; of the iterations of a loop that cannot end, the first
\* MaxRows are recorded and the further ones only counted
renderTableLoop ==
    /\ pc = "loop"
    /\ LoopCondition(m, EndMin(window))
    /\ LET next == NextM(m, window.incrementMin)
           ends == next.nan \/ (Less(m, next) /\ IsFinite(EndMin(window)))
       IN  IF ends \/ Len(offsets) < MaxRows
           THEN /\ offsets' = Append(offsets, m)
                /\ m' = next
                /\ dropped' = dropped
           ELSE /\ offsets' = offsets
                /\ m' = m
                /\ dropped' = 1 - dropped
    /\ UNCHANGED << envVars, timezones, storage, pc, window, resultVars,
                    alertMessage, lastOp >>

\* The end of the loop, the rows of the table body and the end of
\* handleConvert
renderTableRows ==
    /\ pc = "loop"
    /\ ~LoopCondition(m, EndMin(window))
    /\ table' = [i \in 1..Len(offsets) |->
                    Row(lastParsedDate.ms, offsets[i], timezones)]
    /\ pc' = "idle"
    /\ lastOp' = Op("convert", "rendered", << >>)
    /\ UNCHANGED << envVars, timezones, storage, loopVars, lastParsedDate,
                    header, errorMessage, parserCall, alertMessage,
                    timeline >>

\* ------------------------------------------------------------------------
\* Initial states and inputs
\* ------------------------------------------------------------------------

\* The state after new App() in an environment with the given zone of the
\* machine and registry, with the given item in the store (NoItem on a
\* first visit)
Constructed(home, all, item) ==
    /\ homeTimezone = home
    /\ browserTimezone = home
    /\ allZones = all
    /\ LET loaded == loadTimezones(<< >>, item, home)
       IN  /\ timezones = loaded.timezones
           /\ storage = loaded.storage
           /\ pc = IF RenderTimezoneListThrows(loaded.timezones)
                   THEN "crashed" ELSE "idle"
    /\ lastParsedDate = [defined |-> FALSE, ms |-> NaN]
    /\ window = NoWindow
    /\ m = NaN
    /\ offsets = << >>
    /\ dropped = 0
    /\ header = << >>
    /\ table = << >>
    /\ errorMessage = ""
    /\ alertMessage = NoAlert
    /\ parserCall = [called |-> FALSE, text |-> << >>, zone |-> << >>]
    /\ timeline = NoTimeline
    /\ lastOp = Op("construct", "loaded", << >>)

Init ==
    \E home \in BrowserTimezones :
        Constructed(home, getAllTimezones, NoItem)

\* Texts typed into the zone field while conversions are studied
TableAddInputs == { <<"g","m","t">>, <<"J","S","T">> }

\* ------------------------------------------------------------------------
\* Specifications
\* ------------------------------------------------------------------------

\* The zone selection in use, in every environment: the handlers that
\* change the selection, with every zone text
Next ==
    \* Texts typed into the zone field
    \/ \E value \in
            { << >>,
              <<" ","e","s","t"," ">>,
              <<"E","S","T">>,
              <<"e","d","t">>,
              <<"g","m","t">>,
              <<"\t","J","S","T","U+00A0">>,
              <<"I","s","t">>,
              <<"U+0131","s","t">>,
              Zone.America_New_York,
              Zone.Europe_London,
              toLowerCase(Zone.America_New_York),
              <<"a","s">>,
              <<"M","a","r","s">> } : addTimezone(value)
    \/ \E tz \in Range(timezones) : removeTimezone(tz)
    \/ resetTimezones
    \/ Restart
    \/ \E tz \in BrowserTimezones : ChangeBrowserTimezone(tz)

Spec == Init /\ [][Next]_vars

\* Conversion in use, in one environment: every date and window text, over
\* selections of up to three zones
InitTable == Constructed(Zone.America_New_York, getAllTimezones, NoItem)

NextTable ==
    \/ \E value \in TableAddInputs : addTimezone(value)
    \/ \E tz \in Range(timezones) : removeTimezone(tz)
    \/ resetTimezones
    \* Texts typed into the date field
    \* Texts typed into the three window fields: start, end and increment
    \/ \E text \in { << >>, <<"x">>, <<" ","1",":","4","5">> }, fields \in
            { << <<"-","1">>, <<"+","2">>, <<"1","5">> >>,
              << <<"-","1">>, <<"+","2">>, <<"4","5">> >>,
              << <<"-","1">>, <<"+","2">>, <<"0">> >>,
              << <<"-","1">>, <<"+","2">>, <<"-","1","5">> >>,
              << <<"-","1">>, <<"-",".","5">>, <<"+","0","x","7">> >>,
              << <<"-","1">>, <<"+","2">>, << >> >>,
              << <<"-",".","5">>, <<"-","1">>, <<"1","5">> >>,
              << <<"-","0",".","2">>, <<"2",".","0","5">>, <<"4","5">> >> } :
           handleConvert(text, fields[1], fields[2], fields[3])
    \/ renderTableLoop
    \/ renderTableRows

SpecTable == InitTable /\ [][NextTable]_vars

\* handleConvert runs to completion once started: no other handler runs
\* until it returns, and the loop keeps taking its next step
FairSpecTable ==
    SpecTable /\ WF_vars(renderTableLoop) /\ WF_vars(renderTableRows)

\* Page loads over every such item, and the selection handlers after them
InitLoad ==
    LET
        \* Items found in the store at a page load that this page did not write:
        \* texts that hold no list, and lists of entries that addTimezone would
        \* not have let in
        StoredItems ==
            { NoItem } \cup
            { [present |-> TRUE, json |-> v] :
                v \in { JEmptyText, JMalformed, JFalsy, JNonArray, << >>,
                        JString(Zone.America_New_York), JString(<<"a","b","c">>),
                        JString(Zone.UTC), JLength(7), JLength(2),
                        << Zone.Asia_Tokyo, Zone.UTC >>,
                        << << "#number", "1" >>, << "#number", "2" >> >>,
                        << Zone.UTC, Zone.Asia_Tokyo, Zone.America_New_York, Zone.America_Chicago,
                           Zone.Europe_London >> } }
    IN
        \E home \in BrowserTimezones, item \in StoredItems :
            Constructed(home, getAllTimezones, item)

NextLoad ==
    \* Texts put into the zone field after such a page load: typed, or picked
    \* from the autocomplete list
    \/ \E value \in TableAddInputs \cup { Zone.UTC, Zone.America_New_York } : addTimezone(value)
    \/ \E tz \in Range(timezones) : removeTimezone(tz)
    \/ resetTimezones
    \/ Restart

SpecLoad == InitLoad /\ [][NextLoad]_vars

\* Suggestions in use: an unknown zone text against a registry that is a
\* list of short names, so that leading matches, inner matches, equal
\* lengths, more matches than are shown and more matches than are kept
\* all occur
MaxCandidates == 6

CandidateLists ==
    LET
        SuggestNames ==
            { <<"a","b">>, <<"A","b","c">>, <<"A","B","d">>, <<"b","/","a","b">>,
              <<"b","a","b">>, <<"x","a","b">> }
    IN
        UNION { { list \in [1..n -> SuggestNames] :
                    \A i, j \in 1..n : i # j => list[i] # list[j] } :
                n \in 0..MaxCandidates }

InitSuggest ==
    \E home \in BrowserTimezones, all \in CandidateLists :
        Constructed(home, all, NoItem)

NextSuggest == \E value \in { <<"a">>, <<" ","A","B">>, <<"b">>, <<"z">> } : addTimezone(value)

SpecSuggest == InitSuggest /\ [][NextSuggest]_vars

\* ------------------------------------------------------------------------
\* Properties
\* ------------------------------------------------------------------------

\* The position of x in a list without repetition
IndexOf(list, x) == CHOOSE i \in 1..Len(list) : list[i] = x

\* A table of a successful conversion is on display
Displayed == pc = "idle" /\ lastParsedDate.defined /\ errorMessage = ""

\* The offsets of the rows on display
RowOffsets == [i \in 1..Len(table) |-> table[i].offsetMin]

\* step > 0 and start <= end, all three being finite numbers
ValidWindow(w) ==
    /\ IsFinite(w.startHours) /\ IsFinite(w.endHours)
    /\ IsFinite(w.incrementMin)
    /\ Less(Num(0), w.incrementMin)
    /\ Leq(w.startHours, w.endHours)

\* step = 0, or start > end
InvalidWindow(w) ==
    \/ IsFinite(w.incrementMin) /\ IsZero(w.incrementMin)
    \/ Less(w.endHours, w.startHours)

\* The milliseconds from the start of day 0 to a valid Date
InstantOf(date) ==
    With(DayAndMs(date), LAMBDA at : at.day * MsPerDay + at.ms)

\* The instant of a row: the Date that the resolved Date and the row
\* offset give
RowInstant(i) == InstantOf(OffsetDate(lastParsedDate.ms, table[i].offsetMin))

\* The multiples of the step that lie between startMin and endMin
MultiplesInWindow(startMin, endMin, step) ==
    LET lowest == WholeValue(Floor(DividedBy(startMin, step)))
        highest == WholeValue(Floor(DividedBy(endMin, step)))
    IN  { x \in { Times(Num(k), step) : k \in lowest..highest } :
            Leq(startMin, x) /\ Leq(x, endMin) }

\* Minutes of a cell's wall clock counted from day 0, 0:00
WallMinutes(cell) == cell.day * 1440 + cell.hour * 60 + cell.minute

\* C1: a conversion that reaches the parser hands it the first entry of the
\* selection as it is at that moment (and one that stops earlier makes no
\* parser call); entries that stay selected keep their relative order and
\* stand before every entry that comes in, an add changes nothing or
\* appends one entry at the end, and a remove adds nothing: so the first
\* entry is the earliest-added zone still selected.
C1_Step ==
    /\ (pc = "idle" /\ lastOp'.op = "convert"
          /\ lastOp'.outcome \in {"unparseable", "rendering"})
       => /\ Len(timezones) > 0
          /\ parserCall'.called
          /\ parserCall'.zone = timezones[1]
    /\ (pc = "idle" /\ lastOp'.op = "convert"
          /\ lastOp'.outcome \in {"empty", "nozones"})
       => parserCall' = parserCall
    /\ \A i, j \in 1..Len(timezones') :
          (i < j /\ timezones'[j] \in Range(timezones))
          => /\ timezones'[i] \in Range(timezones)
             /\ IndexOf(timezones, timezones'[i]) < IndexOf(timezones, timezones'[j])
    /\ (pc = "idle" /\ lastOp'.op = "add")
       => \/ timezones' = timezones
          \/ /\ Len(timezones') = Len(timezones) + 1
             /\ SubSeq(timezones', 1, Len(timezones)) = timezones
    /\ (pc = "idle" /\ lastOp'.op = "remove")
       => Range(timezones') \subseteq Range(timezones)

C1_ReferenceZoneIsFirstSelected == [][C1_Step]_vars

\* C1 witness: a table was rendered with Asia/Tokyo as reference zone after
\* the default first entry was removed and another zone was added behind it
C1_Witness ==
    /\ lastOp.op = "convert" /\ lastOp.outcome = "rendered"
    /\ parserCall.called /\ parserCall.zone = Zone.Asia_Tokyo
    /\ timezones = << Zone.Asia_Tokyo, Zone.UTC >>

\* C2: every cell on display is the wall clock, in the zone of its column,
\* of the instant (resolved instant + row offset, which for an offset of
\* whole minutes lies that many minutes after the resolved instant), with
\* the zone's UTC offset in force at that shifted instant; between two rows
\* a column
\* advances by the offset difference plus the change of its zone's UTC
\* offset, and the America/New_York column never shows the hour 2:00-2:59
\* of day 0, which the spring-forward transition skips.
C2_CellsUseOffsetAtShiftedInstant ==
    Displayed =>
        \A i \in 1..Len(table) :
            /\ Len(table[i].cells) = Len(header)
            /\ \A j \in 1..Len(header) :
                  LET zone == header[j]
                      t == RowInstant(i)
                      cell == table[i].cells[j]
                  IN  /\ cell.valid
                      /\ (Floor(table[i].offsetMin) = table[i].offsetMin)
                         => t = InstantOf(lastParsedDate.ms)
                                + WholeValue(table[i].offsetMin) * MsPerMinute
                      /\ cell.hour \in 0..23
                      /\ cell.minute \in 0..59
                      /\ WallMinutes(cell) = (t \div 60000) + UtcOffsetMin(zone, t)
                      /\ (zone = Zone.America_New_York)
                         => ~(cell.day = 0 /\ cell.hour = 2)
                      /\ (i > 1) =>
                            LET before == RowInstant(i - 1)
                            IN  WallMinutes(cell)
                                - WallMinutes(table[i - 1].cells[j])
                                = ((t \div 60000) - (before \div 60000))
                                  + (UtcOffsetMin(zone, t)
                                     - UtcOffsetMin(zone, before))

\* C2 witness: a table whose America/New_York column goes from 1:45 straight
\* to 3:00 between two rows 15 minutes apart, while the Asia/Tokyo column
\* advances by 15 minutes
C2_Witness ==
    /\ Displayed
    /\ \E i \in 1..(Len(table) - 1), j, k \in 1..Len(header) :
          /\ header[j] = Zone.America_New_York
          /\ header[k] = Zone.Asia_Tokyo
          /\ table[i + 1].offsetMin = Plus(table[i].offsetMin, Num(15))
          /\ table[i].cells[j] =
                [valid |-> TRUE, day |-> 0, hour |-> 1, minute |-> 45]
          /\ table[i + 1].cells[j] =
                [valid |-> TRUE, day |-> 0, hour |-> 3, minute |-> 0]
          /\ WallMinutes(table[i + 1].cells[k])
             - WallMinutes(table[i].cells[k]) = 15

\* C3: for a window with step > 0 and start <= end, the row offsets are
\* strictly ascending, begin at start*60, never exceed end*60, end at
\* end*60 when the step divides the window, and number
\* floor((endMin - startMin) / step) + 1; the window -1, 2, 15 gives the 13
\* offsets -60, -45, ..., 120.
C3_RowsAscendingFromStartToEnd ==
    (Displayed /\ ValidWindow(window)) =>
        LET startMin == Times(window.startHours, Num(60))
            endMin == Times(window.endHours, Num(60))
            step == window.incrementMin
            span == Minus(endMin, startMin)
            n == Len(table)
        IN  /\ n = WholeValue(Floor(DividedBy(span, step))) + 1
            /\ RowOffsets[1] = startMin
            /\ \A i \in 1..(n - 1) : Less(RowOffsets[i], RowOffsets[i + 1])
            /\ \A i \in 1..n : Leq(RowOffsets[i], endMin)
            /\ IsZero(Remainder(span, step)) => RowOffsets[n] = endMin
            /\ (startMin = Num(-60) /\ endMin = Num(120) /\ step = Num(15))
               => RowOffsets = [i \in 1..13 |-> Num(-60 + 15 * (i - 1))]

\* C4: a conversion whose text was parsed and whose window has step = 0 or
\* start > end ends with a failure shown and no rows.
C4_InvalidWindowFails ==
    (/\ pc = "idle"
     /\ lastOp.op = "convert"
     /\ lastOp.outcome \notin {"empty", "nozones", "unparseable"}
     /\ InvalidWindow(window))
    => (errorMessage # "" /\ table = << >>)

\* C5: the loop of every table generation comes to an end.
C5_TableGenerationTerminates == (pc = "loop") ~> (pc = "idle")

\* C6 as stated: for a window with step > 0 and start <= end, the row
\* offsets are exactly the multiples of the step between start*60 and
\* end*60.
C6_RowsAreMultiplesOfStep ==
    (Displayed /\ ValidWindow(window)) =>
        LET startMin == Times(window.startHours, Num(60))
            endMin == Times(window.endHours, Num(60))
        IN  Range(RowOffsets) =
                MultiplesInWindow(startMin, endMin, window.incrementMin)

\* C6 as amended: the row offsets are exactly the values reached from
\* start*60 by adding the step again and again, up to the last one that
\* does not exceed end*60; they are the multiples of the step in the
\* window, with a row of offset 0 when the window contains 0, when start*60
\* is a multiple of the step.
C6_RowsAreStartPlusMultiplesOfStep ==
    (Displayed /\ ValidWindow(window)) =>
        LET startMin == Times(window.startHours, Num(60))
            endMin == Times(window.endHours, Num(60))
            step == window.incrementMin
            n == Len(table)
        IN  /\ n >= 1
            /\ RowOffsets[1] = startMin
            /\ \A i \in 1..(n - 1) :
                  RowOffsets[i + 1] = Plus(RowOffsets[i], step)
            /\ \A i \in 1..n : Leq(RowOffsets[i], endMin)
            /\ Less(endMin, Plus(RowOffsets[n], step))
            /\ IsZero(Remainder(startMin, step)) =>
                  /\ Range(RowOffsets) =
                        MultiplesInWindow(startMin, endMin, step)
                  /\ (Leq(startMin, Num(0)) /\ Leq(Num(0), endMin))
                     => Num(0) \in Range(RowOffsets)

\* C6 witness: the window -1, 2, 45, whose rows -60, -15, 30, 75, 120 are
\* no multiples of 45 and include no row of offset 0
C6_Witness ==
    /\ Displayed
    /\ window = [startHours |-> Num(-1), endHours |-> Num(2),
                 incrementMin |-> Num(45)]
    /\ RowOffsets = << Num(-60), Num(-15), Num(30), Num(75), Num(120) >>

\* C7: the selection never holds more than 4 entries, and an add attempted
\* while 4 entries are present leaves the selection and the stored item
\* unchanged.
C7_AtMostFourEntries ==
    /\ [](Len(timezones) <= 4)
    /\ [][(pc = "idle" /\ lastOp'.op = "add" /\ Len(timezones) = 4)
          => (timezones' = timezones /\ storage' = storage)]_vars

\* C7 witness: an add of a zone that is valid and not yet selected was
\* refused with 4 entries present
C7_Witness ==
    /\ Len(timezones) = 4
    /\ lastOp.op = "add" /\ lastOp.outcome = "full"
    /\ lastOp.arg = Zone.Europe_London
    /\ ~Contains(timezones, Zone.Europe_London)

\* C8: the selection never holds an identifier twice, and an add of an
\* identifier that is present, or of an abbreviation in any letter case
\* that resolves to one, leaves the selection unchanged.
C8_NoDuplicateEntries ==
    /\ [](\A i, j \in 1..Len(timezones) :
             i # j => timezones[i] # timezones[j])
    /\ [][(pc = "idle" /\ lastOp'.op = "add"
             /\ MapAbbreviation(trim(lastOp'.arg)) \in Range(timezones))
          => timezones' = timezones]_vars

\* C8 witness: "edt" was entered with America/New_York selected behind
\* another entry, and fewer than 4 entries present
C8_Witness ==
    /\ lastOp.op = "add" /\ lastOp.outcome = "present"
    /\ lastOp.arg = <<"e","d","t">>
    /\ Len(timezones) \in 2..3
    /\ timezones[2] = Zone.America_New_York

\* C9: every entry of the selection is an identifier of the registry, and
\* an add whose text, after alias resolution, is no registry identifier
\* leaves the selection unchanged.
C9_EntriesAreRegistryIdentifiers ==
    /\ [](Range(timezones) \subseteq Range(allZones))
    /\ [][(pc = "idle" /\ lastOp'.op = "add"
             /\ MapAbbreviation(trim(lastOp'.arg)) \notin Range(allZones))
          => timezones' = timezones]_vars

\* C9 witness: an unknown zone text was refused while the selection holds,
\* behind the default, a zone that an alias brought in
C9_Witness ==
    /\ lastOp.op = "add" /\ lastOp.outcome = "invalid"
    /\ lastOp.arg = <<"M","a","r","s">>
    /\ timezones[1] = homeTimezone
    /\ Contains(timezones, Zone.Asia_Kolkata)
    /\ Contains(allZones, Zone.Asia_Kolkata)
    /\ ~Contains(allZones, MapAbbreviation(trim(lastOp.arg)))

\* Two characters that are the same letter in either case, or the same
\* character
SameLetter(c, d) ==
    \/ c = d
    \/ \E k \in 1..Len(LowerLetters) :
          {c, d} = {LowerLetters[k], UpperLetters[k]}

\* The name holds the query, without regard to case, from place at + 1 on
HoldsAt(name, query, at) ==
    /\ at + Len(query) <= Len(name)
    /\ \A k \in 1..Len(query) : SameLetter(name[at + k], query[k])

\* Candidate number i holds the query somewhere
IsMatch(i, query) ==
    \E at \in 0..Len(allZones[i]) : HoldsAt(allZones[i], query, at)

\* The rank of candidate number i for a query: leading match or not, then
\* length, then place in the registry
SuggestionBefore(i, j, query) ==
    LET a == allZones[i]
        b == allZones[j]
        aGroup == IF HoldsAt(a, query, 0) THEN 0 ELSE 1
        bGroup == IF HoldsAt(b, query, 0) THEN 0 ELSE 1
    IN  \/ aGroup < bGroup
        \/ aGroup = bGroup /\ Len(a) < Len(b)
        \/ aGroup = bGroup /\ Len(a) = Len(b) /\ i < j

\* The list is the first limit candidates that hold the query, in rank
\* order: every entry is a match, the entries are in rank order, every
\* match left out ranks behind all of them, and none is left out while
\* there is room
FirstRanked(list, limit, query) ==
    LET matches == { i \in 1..Len(allZones) : IsMatch(i, query) }
        place == [k \in 1..Len(list) |-> IndexOf(allZones, list[k])]
    IN  /\ Len(list) = IF Cardinality(matches) < limit
                       THEN Cardinality(matches) ELSE limit
        /\ \A k \in 1..Len(list) :
              /\ Contains(allZones, list[k])
              /\ place[k] \in matches
        /\ \A k \in 1..(Len(list) - 1) :
              SuggestionBefore(place[k], place[k + 1], query)
        /\ \A i \in matches :
              (\A k \in 1..Len(list) : place[k] # i)
              => \A k \in 1..Len(list) :
                    SuggestionBefore(place[k], i, query)

\* C10: for an unknown zone text, the candidates that findSimilarTimezones
\* keeps are the first 5, and the suggestions shown the first 3, of the
\* candidates that contain the text without regard to case, ranked with
\* leading matches first, then shorter first, then registry order: they
\* are that many best-ranked matches, in rank order.
C10_SuggestionsAreBestRankedMatches ==
    (alertMessage.kind = "invalid") =>
        /\ FirstRanked(findSimilarTimezones(trim(lastOp.arg), allZones), 5,
                       trim(lastOp.arg))
        /\ FirstRanked(alertMessage.suggestions, 3, trim(lastOp.arg))

\* C10 witness: six candidates match, the one that stands first in the
\* registry is neither among the five kept nor among the three shown, and
\* the kept ones go on beyond the shown ones
C10_Witness ==
    /\ alertMessage.kind = "invalid"
    /\ lastOp.arg = <<"a">>
    /\ Len(allZones) = 6
    /\ \A i \in 1..6 : IsMatch(i, <<"a">>)
    /\ Len(findSimilarTimezones(<<"a">>, allZones)) = 5
    /\ ~Contains(findSimilarTimezones(<<"a">>, allZones), allZones[1])
    /\ Len(alertMessage.suggestions) = 3

\* The number of the calendar day that zone tz shows at the instant
LocalDate(date, tz) == formatDate(date, tz, "date").day

\* C11: when a conversion is on display, the timeline holds an entry for
\* every zone of the selection converted, and each entry is marked next,
\* previous or same by comparing the calendar date of its zone at the
\* instant with the calendar date of the reference zone, the first selected
\* zone, whatever the zone of the machine
C11_TimelineEntriesCompareWithReferenceZone ==
    Displayed =>
        /\ Len(timeline) = Len(header)
        /\ \A i \in 1..Len(timeline) :
              LET zoneDate == LocalDate(lastParsedDate.ms, header[i])
                  refDate  == LocalDate(lastParsedDate.ms, header[1])
              IN  /\ timeline[i].zone = header[i]
                  /\ timeline[i].note =
                        (IF zoneDate > refDate THEN "next"
                         ELSE IF zoneDate < refDate THEN "previous"
                         ELSE "same")

\* C12: after start-up and after every add, remove and reset, the item
\* 'timezones' of the store is present and holds the selection, the same
\* identifiers in the same order; an add that is refused (empty text, 4
\* entries present, unknown zone, zone already selected) changes neither
\* the selection nor the item.
C12_StoredItemEqualsSelection ==
    /\ [](storage.present /\ storage.json = timezones)
    /\ [][(pc = "idle" /\ lastOp'.op = "add"
             /\ lastOp'.outcome \in {"empty", "full", "invalid", "present"})
          => (timezones' = timezones /\ storage' = storage)]_vars

\* C12 witness: an unknown zone text was refused with three entries
\* selected, the first of them not the default, and the item holds the
\* same three entries
C12_Witness ==
    /\ lastOp.op = "add" /\ lastOp.outcome = "invalid"
    /\ Len(timezones) = 3
    /\ timezones[1] # homeTimezone
    /\ storage = [present |-> TRUE, json |-> timezones]
====
